---------------------------- MODULE Spec2Model ----------------------------
(***************************************************************************)
(* BLAKE3 hash engine (3rdparty/blake3/blake3.c) and the Decred mining     *)
(* adapter (crypto/blake3dcr/Blake3DCR.cpp) as a state machine.            *)
(*                                                                         *)
(* A uint32_t is kept as the pair <<hi, lo>> of its 16-bit halves, so that *)
(* every addition, rotation and xor is computed modulo 2^32 exactly.       *)
(* C arrays are functions on 0..n-1; byte strings that have a length       *)
(* (inputs, outputs) are sequences of bytes.                               *)
(***************************************************************************)
EXTENDS Integers, Sequences, FiniteSets, TLC

\* ------------------------------------------------------------------------
\* blake3.h constants
\* ------------------------------------------------------------------------
BLAKE3_KEY_LEN == 32
BLAKE3_OUT_LEN == 32
BLAKE3_BLOCK_LEN == 64
BLAKE3_CHUNK_LEN == 1024
BLAKE3_MAX_DEPTH == 54

CHUNK_START == 1
CHUNK_END == 2
PARENT == 4
ROOT == 8
KEYED_HASH == 16
DERIVE_KEY_CONTEXT == 32
DERIVE_KEY_MATERIAL == 64

\* A C array given by a function constructor, tabulated once: f @@ f = f, and
\* TLC stores the result as an explicit table instead of re-evaluating the
\* constructor at every read.
Array(f) == f @@ f

\* "v has been computed": always true.  TLC evaluates operator arguments on
\* demand; a loop whose condition does not read its state asks for Ready(state)
\* there, so that each iteration is computed before the next one starts, as in
\* the C code.
Ready(v) == v = v

\* ------------------------------------------------------------------------
\* 32-bit words
\* ------------------------------------------------------------------------
Half == 65536

\* x ^ y on two bytes, bit by bit
XorBit8(x, y) ==
    ((x + y) % 2)
  + 2 * (((x \div 2) + (y \div 2)) % 2)
  + 4 * (((x \div 4) + (y \div 4)) % 2)
  + 8 * (((x \div 8) + (y \div 8)) % 2)
  + 16 * (((x \div 16) + (y \div 16)) % 2)
  + 32 * (((x \div 32) + (y \div 32)) % 2)
  + 64 * (((x \div 64) + (y \div 64)) % 2)
  + 128 * (((x \div 128) + (y \div 128)) % 2)

\* x | y, bit by bit (flag bytes)
RECURSIVE OrBits(_, _, _)
OrBits(x, y, n) ==
  IF n = 0 THEN 0
  ELSE (IF (x % 2) + (y % 2) > 0 THEN 1 ELSE 0) + 2 * OrBits(x \div 2, y \div 2, n - 1)

\* x & y, bit by bit (flag bytes)
RECURSIVE AndBits(_, _, _)
AndBits(x, y, n) ==
  IF n = 0 THEN 0
  ELSE ((x % 2) * (y % 2)) + 2 * AndBits(x \div 2, y \div 2, n - 1)

Or8(x, y) == OrBits(x, y, 8)
And8(x, y) == AndBits(x, y, 8)

\* the xor of two bytes, tabulated once
XorByte == Array([x \in 0..255 |-> Array([y \in 0..255 |-> XorBit8(x, y)])])

Xor16(x, y) ==
  XorByte[x \div 256][y \div 256] * 256 + XorByte[x % 256][y % 256]

\* uint32_t ^ uint32_t
Xor32(a, b) == <<Xor16(a[1], b[1]), Xor16(a[2], b[2])>>

\* uint32_t + uint32_t, modulo 2^32
Add32(a, b) ==
  LET lo == a[2] + b[2]
      hi == a[1] + b[1] + (lo \div Half)
  IN <<hi % Half, lo % Half>>

\* the uint32_t whose value is the small integer n (n < 2^16)
W32(n) == <<0, n>>

\* 2^c for the shift distances of rotr32
Pow2(c) == CASE c = 4 -> 16 [] c = 7 -> 128 [] c = 8 -> 256 [] c = 9 -> 512 [] c = 12 -> 4096

\* (w >> c) | (w << (32 - c))
rotr32(w, c) ==
  IF c = 16 THEN <<w[2], w[1]>>
  ELSE LET p == Pow2(c)
           q == Pow2(16 - c)
       IN <<(w[1] \div p) + (w[2] % p) * q, (w[2] \div p) + (w[1] % p) * q>>

\* four bytes, least significant first, to a word
load32_le(b0, b1, b2, b3) == <<b2 + 256 * b3, b0 + 256 * b1>>

\* byte k (0..3) of the little-endian encoding of w
store32_le(w, k) ==
  CASE k = 0 -> w[2] % 256
    [] k = 1 -> w[2] \div 256
    [] k = 2 -> w[1] % 256
    [] k = 3 -> w[1] \div 256

IV == Array([i \in 0..7 |->
        CASE i = 0 -> <<27145, 58983>>   \* 0x6A09E667
          [] i = 1 -> <<47975, 44677>>   \* 0xBB67AE85
          [] i = 2 -> <<15470, 62322>>   \* 0x3C6EF372
          [] i = 3 -> <<42319, 62778>>   \* 0xA54FF53A
          [] i = 4 -> <<20750, 21119>>   \* 0x510E527F
          [] i = 5 -> <<39685, 26764>>   \* 0x9B05688C
          [] i = 6 -> <<8067, 55723>>    \* 0x1F83D9AB
          [] i = 7 -> <<23520, 52505>>]) \* 0x5BE0CD19

MSG_SCHEDULE == [r \in 0..6 |->
  CASE r = 0 -> [i \in 0..15 |-> <<0, 1, 2, 3, 4, 5, 6, 7, 8, 9, 10, 11, 12, 13, 14, 15>>[i + 1]]
    [] r = 1 -> [i \in 0..15 |-> <<2, 6, 3, 10, 7, 0, 4, 13, 1, 11, 12, 5, 9, 14, 15, 8>>[i + 1]]
    [] r = 2 -> [i \in 0..15 |-> <<3, 4, 10, 12, 13, 2, 7, 14, 6, 5, 9, 0, 11, 15, 8, 1>>[i + 1]]
    [] r = 3 -> [i \in 0..15 |-> <<10, 7, 12, 9, 14, 3, 13, 15, 4, 0, 11, 2, 5, 8, 1, 6>>[i + 1]]
    [] r = 4 -> [i \in 0..15 |-> <<12, 13, 9, 11, 15, 10, 14, 8, 7, 2, 5, 3, 0, 1, 6, 4>>[i + 1]]
    [] r = 5 -> [i \in 0..15 |-> <<9, 14, 11, 5, 8, 12, 15, 1, 13, 3, 0, 10, 2, 6, 4, 7>>[i + 1]]
    [] r = 6 -> [i \in 0..15 |-> <<11, 15, 5, 0, 1, 9, 8, 6, 14, 10, 2, 12, 3, 4, 7, 13>>[i + 1]]]

\* state[a] = state[a] + state[b] + x
g_add(state, a, b, x) == [state EXCEPT ![a] = Add32(Add32(state[a], state[b]), x)]

\* state[d] = rotr32(state[d] ^ state[a], c)
g_rot(state, d, a, c) == [state EXCEPT ![d] = rotr32(Xor32(state[d], state[a]), c)]

\* state[c] = state[c] + state[d]
g_sum(state, c, d) == [state EXCEPT ![c] = Add32(state[c], state[d])]

\* Quarter round: the eight assignments of g, first to last
g(state, a, b, c, d, x, y) ==
  g_rot(g_sum(g_rot(g_add(
    g_rot(g_sum(g_rot(g_add(state, a, b, x), d, a, 16), c, d), b, c, 12),
      a, b, y), d, a, 8), c, d), b, c, 7)

\* the state indices a, b, c, d of the eight g calls of round_fn: the four
\* columns, then the four diagonals
G_INDEX ==
  <<<<0, 4, 8, 12>>, <<1, 5, 9, 13>>, <<2, 6, 10, 14>>, <<3, 7, 11, 15>>,
    <<0, 5, 10, 15>>, <<1, 6, 11, 12>>, <<2, 7, 8, 13>>, <<3, 4, 9, 14>>>>

\* the g calls k..7 of round_fn, in order; schedule = MSG_SCHEDULE[round]
RECURSIVE round_fn_from(_, _, _, _)
round_fn_from(state, msg, schedule, k) ==
  IF k < 8 /\ Ready(state)
  THEN round_fn_from(
         g(state, G_INDEX[k + 1][1], G_INDEX[k + 1][2], G_INDEX[k + 1][3], G_INDEX[k + 1][4],
           msg[schedule[2 * k]], msg[schedule[2 * k + 1]]),
         msg, schedule, k + 1)
  ELSE state

round_fn(state, msg, round) == round_fn_from(state, msg, MSG_SCHEDULE[round], 0)

\* for (size_t round = 0; round < 7; round++) round_fn(state, msg, round);
RECURSIVE Rounds(_, _, _)
Rounds(state, msg, round) ==
  IF round < 7 /\ Ready(state) /\ Ready(msg)
  THEN Rounds(round_fn(state, msg, round), msg, round + 1)
  ELSE state

\* block: 0..63 -> byte; counter: a chunk or output-block index (< 2^32 here,
\* so its high word is 0); returns the 16-word state after 7 rounds
compress_pre(cv, block, block_len, counter, flags) ==
  Rounds(
    Array([i \in 0..15 |->
      CASE i < 8 -> cv[i]
        [] i \in 8..11 -> IV[i - 8]
        [] i = 12 -> <<(counter \div Half) % Half, counter % Half>>
        [] i = 13 -> W32(0)
        [] i = 14 -> W32(block_len)
        [] i = 15 -> W32(flags)]),
    Array([i \in 0..15 |->
      load32_le(block[4 * i], block[4 * i + 1], block[4 * i + 2], block[4 * i + 3])]),
    0)

\* cv[i] = state[i] ^ state[i + 8]
compress_in_place_cv(state) == Array([i \in 0..7 |-> Xor32(state[i], state[i + 8])])

\* the new chaining value
compress_in_place(cv, block, block_len, counter, flags) ==
  compress_in_place_cv(compress_pre(cv, block, block_len, counter, flags))

\* compress_xof_out with the defect of feeding forward state[i - 8] instead of
\* cv[i - 8] in the upper eight words
compress_xof_out_no_cv(state, cv) ==
  Array([j \in 0..63 |->
    store32_le(IF j \div 4 < 8
               THEN Xor32(state[j \div 4], state[(j \div 4) + 8])
               ELSE Xor32(state[j \div 4], state[(j \div 4) - 8]),
               j % 4)])

\* the 16 output words of compress_xof, stored little-endian
compress_xof_out(state, cv) ==
  Array([j \in 0..63 |->
    store32_le(IF j \div 4 < 8
               THEN Xor32(state[j \div 4], state[(j \div 4) + 8])
               ELSE Xor32(state[j \div 4], cv[(j \div 4) - 8]),
               j % 4)])

\* the 64 output bytes, as a function on 0..63
compress_xof(cv, block, block_len, counter, flags) ==
  compress_xof_out(compress_pre(cv, block, block_len, counter, flags), cv)

\* One call of compress_in_place or compress_xof: the place of the call in the
\* source (site) and the arguments it was given.  The calls an API call makes
\* are kept, in order, as history (the log fields below).
Compression(site, cv, block, block_len, counter, flags) ==
  [site |-> site, cv |-> cv, block |-> block, block_len |-> block_len,
   counter |-> counter, flags |-> flags]

\* what the call c computes
compress_in_place_of(c) == compress_in_place(c.cv, c.block, c.block_len, c.counter, c.flags)
compress_xof_of(c) == compress_xof(c.cv, c.block, c.block_len, c.counter, c.flags)

\* ------------------------------------------------------------------------
\* Chunk state.  A byte pointer is a byte sequence `input` and an offset `off`
\* into it: the C byte input[k] is input[off + k + 1].
\*
\* log is history, not a field of the C struct: the compressions made on this
\* chunk state since it was initialised or the current API call began.
\* ------------------------------------------------------------------------
Min(a, b) == IF a < b THEN a ELSE b

ZeroBlock == Array([i \in 0..63 |-> 0])

\* the 64 bytes at input + off
BlockAt(input, off) == Array([i \in 0..63 |-> input[off + i + 1]])

\* 8 words stored little-endian: 32 bytes, as a function on 0..31
CvBytes(cv) == Array([j \in 0..31 |-> store32_le(cv[j \div 4], j % 4)])

\* 32 bytes loaded as 8 little-endian words
CvWords(bytes) ==
  Array([i \in 0..7 |->
    load32_le(bytes[4 * i], bytes[4 * i + 1], bytes[4 * i + 2], bytes[4 * i + 3])])

chunk_state_init(key, flags) ==
  [cv |-> key,
   chunk_counter |-> 0,
   buf |-> ZeroBlock,
   buf_len |-> 0,
   blocks_compressed |-> 0,
   flags |-> flags,
   log |-> << >>]

chunk_state_len(self) ==
  (BLAKE3_BLOCK_LEN * self.blocks_compressed) + self.buf_len

\* chunk_state_fill_buf with the defect of copying to the start of buf instead
\* of buf + buf_len: what the streaming properties must rule out
chunk_state_fill_buf_at_start(self, input, off, input_len) ==
  LET take == Min(BLAKE3_BLOCK_LEN - self.buf_len, input_len)
  IN [self |-> [self EXCEPT
                  !.buf = Array([i \in 0..63 |->
                            IF i < take THEN input[off + i + 1] ELSE self.buf[i]]),
                  !.buf_len = (self.buf_len + take) % 256],
      take |-> take]

\* returns the chunk state and the number of bytes taken
chunk_state_fill_buf(self, input, off, input_len) ==
  LET take == Min(BLAKE3_BLOCK_LEN - self.buf_len, input_len)
  IN [self |-> [self EXCEPT
                  !.buf = Array([i \in 0..63 |->
                            IF i >= self.buf_len /\ i < self.buf_len + take
                            THEN input[off + (i - self.buf_len) + 1]
                            ELSE self.buf[i]]),
                  !.buf_len = (self.buf_len + take) % 256],
      take |-> take]

\* chunk_state_maybe_start_flag with the defect of giving no CHUNK_START to a
\* chunk that holds no bytes
chunk_state_maybe_start_flag_nonempty(self) ==
  IF self.blocks_compressed = 0 /\ self.buf_len > 0 THEN CHUNK_START ELSE 0

chunk_state_maybe_start_flag(self) ==
  IF self.blocks_compressed = 0 THEN CHUNK_START ELSE 0

\* chunk_state_update_call with the defect of flagging every block of a chunk
\* as its first
chunk_state_update_call_always_start(self, block) ==
  Compression("chunk_state_update", self.cv, block, BLAKE3_BLOCK_LEN, self.chunk_counter,
              Or8(self.flags, CHUNK_START))

\* the compress_in_place call of chunk_state_update on the 64-byte block
chunk_state_update_call(self, block) ==
  Compression("chunk_state_update", self.cv, block, BLAKE3_BLOCK_LEN, self.chunk_counter,
              Or8(self.flags, chunk_state_maybe_start_flag(self)))

\* compress_in_place(self->cv, ...); self->blocks_compressed++; for the call c
chunk_state_update_compress(self, c) ==
  [self EXCEPT
     !.cv = compress_in_place_of(c),
     !.blocks_compressed = (self.blocks_compressed + 1) % 256,
     !.log = Append(self.log, c)]

\* chunk_state_update_blocks with the defect of compressing while
\* input_len >= BLAKE3_BLOCK_LEN: the last full block is not kept back
RECURSIVE chunk_state_update_blocks_eager(_, _, _, _)
chunk_state_update_blocks_eager(self, input, off, input_len) ==
  IF input_len >= BLAKE3_BLOCK_LEN /\ Ready(self)
  THEN chunk_state_update_blocks_eager(
         chunk_state_update_compress(self,
           chunk_state_update_call(self, BlockAt(input, off))),
         input, off + BLAKE3_BLOCK_LEN, input_len - BLAKE3_BLOCK_LEN)
  ELSE [self |-> self, off |-> off, input_len |-> input_len]

\* while (input_len > BLAKE3_BLOCK_LEN): compress whole blocks straight from
\* the input; returns the chunk state and what is left of the input
RECURSIVE chunk_state_update_blocks(_, _, _, _)
chunk_state_update_blocks(self, input, off, input_len) ==
  IF input_len > BLAKE3_BLOCK_LEN /\ Ready(self)
  THEN chunk_state_update_blocks(
         chunk_state_update_compress(self,
           chunk_state_update_call(self, BlockAt(input, off))),
         input, off + BLAKE3_BLOCK_LEN, input_len - BLAKE3_BLOCK_LEN)
  ELSE [self |-> self, off |-> off, input_len |-> input_len]

\* chunk_state_update_buffered with the defect of leaving out the memset of
\* buf after the compression
chunk_state_update_buffered_no_memset(self, filled, off, input_len) ==
  IF self.buf_len > 0
  THEN IF input_len - filled.take > 0
       THEN [self |-> [chunk_state_update_compress(filled.self,
                         chunk_state_update_call(filled.self, filled.self.buf))
                       EXCEPT !.buf_len = 0],
             off |-> off + filled.take,
             input_len |-> input_len - filled.take]
       ELSE [self |-> filled.self,
             off |-> off + filled.take,
             input_len |-> input_len - filled.take]
  ELSE [self |-> self, off |-> off, input_len |-> input_len]

\* chunk_state_update_buffered with the defect of compressing the buffer as
\* soon as it is full, whether or not input remains
chunk_state_update_buffered_eager(self, filled, off, input_len) ==
  IF self.buf_len > 0
  THEN IF filled.self.buf_len = BLAKE3_BLOCK_LEN
       THEN [self |-> [chunk_state_update_compress(filled.self,
                         chunk_state_update_call(filled.self, filled.self.buf))
                       EXCEPT !.buf_len = 0, !.buf = ZeroBlock],
             off |-> off + filled.take,
             input_len |-> input_len - filled.take]
       ELSE [self |-> filled.self,
             off |-> off + filled.take,
             input_len |-> input_len - filled.take]
  ELSE [self |-> self, off |-> off, input_len |-> input_len]

\* if (self->buf_len > 0) { ... }; filled is what chunk_state_fill_buf gives
\* on entry; returns the chunk state and what is left of the input
chunk_state_update_buffered(self, filled, off, input_len) ==
  IF self.buf_len > 0
  THEN IF input_len - filled.take > 0
       THEN [self |-> [chunk_state_update_compress(filled.self,
                         chunk_state_update_call(filled.self, filled.self.buf))
                       EXCEPT !.buf_len = 0, !.buf = ZeroBlock],
             off |-> off + filled.take,
             input_len |-> input_len - filled.take]
       ELSE [self |-> filled.self,
             off |-> off + filled.take,
             input_len |-> input_len - filled.take]
  ELSE [self |-> self, off |-> off, input_len |-> input_len]

\* the final chunk_state_fill_buf, on what the block loop left
chunk_state_update_rest(looped, input) ==
  chunk_state_fill_buf(looped.self, input, looped.off, looped.input_len).self

\* the block loop and what follows it, on what the buffered part left
chunk_state_update_unbuffered(top, input) ==
  chunk_state_update_rest(
    chunk_state_update_blocks(top.self, input, top.off, top.input_len), input)

chunk_state_update(self, input, off, input_len) ==
  chunk_state_update_unbuffered(
    chunk_state_update_buffered(self, chunk_state_fill_buf(self, input, off, input_len),
                                off, input_len),
    input)

\* the compress_xof call of chunk_state_output
chunk_state_output_call(self) ==
  Compression("chunk_state_output", self.cv, self.buf, self.buf_len, self.chunk_counter,
              Or8(Or8(self.flags, chunk_state_maybe_start_flag(self)), CHUNK_END))

\* memcpy(out, wide_buf, BLAKE3_OUT_LEN);
chunk_state_output_copy(wide_buf) == Array([i \in 0..(BLAKE3_OUT_LEN - 1) |-> wide_buf[i]])

\* the chunk's chaining value: the first 32 bytes of the wide output
chunk_state_output(self) ==
  chunk_state_output_copy(compress_xof_of(chunk_state_output_call(self)))

\* ------------------------------------------------------------------------
\* Hasher.  cv_stack is the live part of the C array, bytes
\* 0 .. 32 * cv_stack_len - 1, as a byte sequence (byte j is cv_stack[j + 1]);
\* the storage above it is never read before it is written.
\*
\* cv_tree is history, not a field of the C struct: for each live stack entry,
\* the subtree whose chaining value the entry holds, written in prefix form
\* (a chunk is its index, a parent is -1 followed by its left and its right
\* child).  It is written where cv_stack is written and read by no operation.
\*
\* log is history as well: what the current API call has done on chunks it
\* completed and on the CV stack, in order: the compressions (Compression
\* records) and the stores of hasher_push_cv (site "hasher_push_cv").
\* ------------------------------------------------------------------------
\* the first n bytes of a sequence, as a C array
SeqBytes(bytes, n) == Array([i \in 0..(n - 1) |-> bytes[i + 1]])

\* n bytes of the function f from index from on, as a sequence
Bytes(f, from, n) == [j \in 1..n |-> f[from + j - 1]]

\* the stack of live entries after 32 bytes were stored at byte offset
StackStore(cv_stack, offset, bytes, live) ==
  SubSeq(cv_stack, 1, offset) \o Bytes(bytes, 0, BLAKE3_OUT_LEN)
    \o SubSeq(cv_stack, offset + BLAKE3_OUT_LEN + 1, live * BLAKE3_OUT_LEN)

RECURSIVE popcount(_)
popcount(n) == IF n = 0 THEN 0 ELSE (n % 2) + popcount(n \div 2)

blake3_hasher_init ==
  [key |-> IV,
   chunk |-> chunk_state_init(IV, 0),
   cv_stack_len |-> 0,
   cv_stack |-> << >>,
   cv_tree |-> << >>,
   log |-> << >>]

\* blake3_hasher_init_keyed with the defect of dropping the key and the
\* KEYED_HASH flag
blake3_hasher_init_keyed_unkeyed(key) == blake3_hasher_init

\* key: 32 bytes, a function on 0..31
blake3_hasher_init_keyed(key) ==
  LET key_words == CvWords(key)
  IN [key |-> key_words,
      chunk |-> chunk_state_init(key_words, KEYED_HASH),
      cv_stack_len |-> 0,
      cv_stack |-> << >>,
      cv_tree |-> << >>,
      log |-> << >>]

\* hasher_merge_cv_stack_call with the defect of taking the two children in
\* the wrong order: the top entry first
hasher_merge_cv_stack_call_swapped(self) ==
  Compression("hasher_merge_cv_stack", self.key,
    Array([i \in 0..63 |->
      self.cv_stack[(self.cv_stack_len - 2) * BLAKE3_OUT_LEN
                    + ((i + BLAKE3_OUT_LEN) % 64) + 1]]),
    BLAKE3_BLOCK_LEN, 0, Or8(self.chunk.flags, PARENT))

\* the compress_in_place call of hasher_merge_cv_stack: parent_block is the
\* 64 bytes of the two topmost stack entries
hasher_merge_cv_stack_call(self) ==
  Compression("hasher_merge_cv_stack", self.key,
    Array([i \in 0..63 |->
      self.cv_stack[(self.cv_stack_len - 2) * BLAKE3_OUT_LEN + i + 1]]),
    BLAKE3_BLOCK_LEN, 0, Or8(self.chunk.flags, PARENT))

\* one pass of the while loop of hasher_merge_cv_stack, for its call c
hasher_merge_cv_stack_store(self, c) ==
  [self EXCEPT
     !.cv_stack_len = self.cv_stack_len - 1,
     !.cv_stack =
       StackStore(self.cv_stack, (self.cv_stack_len - 2) * BLAKE3_OUT_LEN,
         CvBytes(compress_in_place_of(c)), self.cv_stack_len - 1),
     !.cv_tree = SubSeq(self.cv_tree, 1, self.cv_stack_len - 2)
                   \o << <<-1>> \o self.cv_tree[self.cv_stack_len - 1]
                                \o self.cv_tree[self.cv_stack_len] >>,
     !.log = Append(self.log, c)]

hasher_merge_cv_stack_step(self) ==
  hasher_merge_cv_stack_store(self, hasher_merge_cv_stack_call(self))

\* hasher_merge_cv_stack with the defect of never merging
hasher_merge_cv_stack_never(self, total_len) == self

RECURSIVE hasher_merge_cv_stack(_, _)
hasher_merge_cv_stack(self, total_len) ==
  IF self.cv_stack_len > popcount(total_len)
  THEN hasher_merge_cv_stack(hasher_merge_cv_stack_step(self), total_len)
  ELSE self

\* the memcpy and the increment of hasher_push_cv, on the merged stack; the
\* log keeps cv_stack_len as it is when new_cv is stored
hasher_push_cv_store(merged, new_cv, chunk_counter) ==
  [merged EXCEPT
     !.cv_stack = StackStore(merged.cv_stack, merged.cv_stack_len * BLAKE3_OUT_LEN,
                             new_cv, merged.cv_stack_len + 1),
     !.cv_stack_len = (merged.cv_stack_len + 1) % 256,
     !.cv_tree = Append(merged.cv_tree, <<merged.chunk.chunk_counter>>),
     !.log = Append(merged.log,
               [site |-> "hasher_push_cv", new_cv |-> new_cv,
                chunk_counter |-> chunk_counter, cv_stack_len |-> merged.cv_stack_len])]

hasher_push_cv(self, new_cv, chunk_counter) ==
  hasher_push_cv_store(hasher_merge_cv_stack(self, chunk_counter), new_cv, chunk_counter)

\* blake3_hasher_update_next_chunk with the defect of leaving out
\* self->chunk.chunk_counter = total_chunks
blake3_hasher_update_next_chunk_same_counter(pushed, total_chunks) ==
  [pushed EXCEPT
     !.chunk = [chunk_state_init(pushed.key, pushed.chunk.flags)
                  EXCEPT !.chunk_counter = pushed.chunk.chunk_counter]]

\* blake3_hasher_update_next_chunk with the defect of starting the next chunk
\* without the hasher's flags
blake3_hasher_update_next_chunk_no_flags(pushed, total_chunks) ==
  [pushed EXCEPT
     !.chunk = [chunk_state_init(pushed.key, 0)
                  EXCEPT !.chunk_counter = total_chunks]]

\* chunk_state_init(&self->chunk, ...); self->chunk.chunk_counter = total_chunks;
blake3_hasher_update_next_chunk(pushed, total_chunks) ==
  [pushed EXCEPT
     !.chunk = [chunk_state_init(pushed.key, pushed.chunk.flags)
                  EXCEPT !.chunk_counter = total_chunks]]

\* if (chunk_state_len(&self->chunk) == BLAKE3_CHUNK_LEN) { ... }
blake3_hasher_update_rollover(self) ==
  IF chunk_state_len(self.chunk) = BLAKE3_CHUNK_LEN
  THEN blake3_hasher_update_next_chunk(
         hasher_push_cv(
           [self EXCEPT !.log = self.log \o self.chunk.log
                                  \o <<chunk_state_output_call(self.chunk)>>],
           chunk_state_output(self.chunk), self.chunk.chunk_counter + 1),
         self.chunk.chunk_counter + 1)
  ELSE self

\* blake3_hasher_update_take with the defect of not subtracting what the
\* chunk already holds
blake3_hasher_update_take_whole(self, input_len) ==
  Min(BLAKE3_CHUNK_LEN, input_len)

\* take = want < input_len ? want : input_len
blake3_hasher_update_take(self, input_len) ==
  Min(BLAKE3_CHUNK_LEN - chunk_state_len(self.chunk), input_len)

\* while (input_len > 0) { ... }; _fill is the loop body after the rollover
RECURSIVE blake3_hasher_update_loop(_, _, _, _)
RECURSIVE blake3_hasher_update_fill(_, _, _, _)
blake3_hasher_update_fill(self, input, off, input_len) ==
  blake3_hasher_update_loop(
    [self EXCEPT
       !.chunk = chunk_state_update(self.chunk, input, off,
                                    blake3_hasher_update_take(self, input_len))],
    input,
    off + blake3_hasher_update_take(self, input_len),
    input_len - blake3_hasher_update_take(self, input_len))

blake3_hasher_update_loop(self, input, off, input_len) ==
  IF input_len > 0 /\ Ready(self)
  THEN blake3_hasher_update_fill(blake3_hasher_update_rollover(self), input, off, input_len)
  ELSE self

\* input: a byte sequence of at least input_len bytes
blake3_hasher_update(self, input, input_len) ==
  blake3_hasher_update_loop(self, input, 0, input_len)

\* the compress_xof call of the single-chunk branch for one output block
finalize_seek_chunk_call(self, block_flags, output_block_counter) ==
  Compression("finalize_seek_chunk", self.chunk.cv, self.chunk.buf, self.chunk.buf_len,
              output_block_counter, block_flags)

\* memcpy(out, wide_buf + from, copy_len) after the call c.  written: the
\* bytes written to out so far and the calls made so far
finalize_seek_chunk_copy(written, c, from, copy_len) ==
  [out |-> written.out \o Bytes(compress_xof_of(c), from, copy_len),
   log |-> Append(written.log, c)]

\* while (out_len > 0) { ... } of the single-chunk branch
RECURSIVE finalize_blocks(_, _, _, _, _)
finalize_blocks(self, block_flags, output_block_counter, out_len, written) ==
  IF out_len > 0 /\ Ready(written)
  THEN finalize_blocks(self, block_flags, output_block_counter + 1,
         out_len - Min(out_len, 64),
         finalize_seek_chunk_copy(written,
           finalize_seek_chunk_call(self, block_flags, output_block_counter),
           0, Min(out_len, 64)))
  ELSE written

\* the compress_in_place call of the fold loop: parent_block is stack entry
\* num_cvs - 1 followed by right
\* finalize_fold_call with the defect of setting ROOT on every fold
finalize_fold_call_all_root(self, right, num_cvs) ==
  Compression("finalize_fold", self.key,
    Array([i \in 0..63 |->
      IF i < BLAKE3_OUT_LEN
      THEN self.cv_stack[(num_cvs - 1) * BLAKE3_OUT_LEN + i + 1]
      ELSE right[i - BLAKE3_OUT_LEN]]),
    BLAKE3_BLOCK_LEN, 0,
    Or8(Or8(self.chunk.flags, PARENT), ROOT))

finalize_fold_call(self, right, num_cvs) ==
  Compression("finalize_fold", self.key,
    Array([i \in 0..63 |->
      IF i < BLAKE3_OUT_LEN
      THEN self.cv_stack[(num_cvs - 1) * BLAKE3_OUT_LEN + i + 1]
      ELSE right[i - BLAKE3_OUT_LEN]]),
    BLAKE3_BLOCK_LEN, 0,
    IF num_cvs = 1
    THEN Or8(Or8(self.chunk.flags, PARENT), ROOT)
    ELSE Or8(self.chunk.flags, PARENT))

\* store32_le(&parent_block[BLAKE3_OUT_LEN + 4 * i], parent_cv[i]) after the
\* call c.  folded: the last 32 bytes of parent_block and the calls made so far
finalize_fold_store(folded, c) ==
  [right |-> CvBytes(compress_in_place_of(c)), log |-> Append(folded.log, c)]

\* while (num_cvs > 0) { ... } of the multi-chunk branch
RECURSIVE finalize_fold(_, _, _)
finalize_fold(self, folded, num_cvs) ==
  IF num_cvs > 0 /\ Ready(folded)
  THEN finalize_fold(self,
         finalize_fold_store(folded, finalize_fold_call(self, folded.right, num_cvs)),
         num_cvs - 1)
  ELSE folded

\* finalize_seek_chunk with the defect of copying the first block from its
\* start instead of from offset_within_block
finalize_seek_chunk_from_block_start(self, seek, out_len, block_flags) ==
  finalize_blocks(self, block_flags, (seek \div 64) + 1,
    out_len - Min(out_len, 64 - (seek % 64)),
    finalize_seek_chunk_copy([out |-> << >>, log |-> << >>],
      finalize_seek_chunk_call(self, block_flags, seek \div 64),
      0, Min(out_len, 64 - (seek % 64))))

\* the single-chunk branch: the bytes written to out and the calls made
finalize_seek_chunk(self, seek, out_len, block_flags) ==
  finalize_blocks(self, block_flags, (seek \div 64) + 1,
    out_len - Min(out_len, 64 - (seek % 64)),
    finalize_seek_chunk_copy([out |-> << >>, log |-> << >>],
      finalize_seek_chunk_call(self, block_flags, seek \div 64),
      seek % 64, Min(out_len, 64 - (seek % 64))))

\* memcpy(out, parent_block + BLAKE3_OUT_LEN, out_len < 32 ? out_len : 32)
finalize_seek_stack_copy(folded, out_len) ==
  [out |-> Bytes(folded.right, 0, Min(out_len, BLAKE3_OUT_LEN)) \o << >>,
   log |-> folded.log]

\* the multi-chunk branch: the bytes written to out and the calls made
finalize_seek_stack(self, out_len) ==
  finalize_seek_stack_copy(
    finalize_fold(self,
      [right |-> chunk_state_output(self.chunk),
       log |-> <<chunk_state_output_call(self.chunk)>>],
      self.cv_stack_len),
    out_len)

\* what a finalize call gives: self as it is left, the bytes written to out in
\* order, and the compressions made
finalize_seek_result(self, written) ==
  [self |-> self, out |-> written.out, log |-> written.log]

\* blake3_hasher_finalize_seek with the defect of folding the CV stack in
\* place: the stack is left empty
\* blake3_hasher_finalize_seek with a multi-chunk branch that skips seek
\* bytes of the root block's first 32
blake3_hasher_finalize_seek_stack_seeks(self, seek, out_len) ==
  IF out_len = 0
  THEN finalize_seek_result(self, [out |-> << >>, log |-> << >>])
  ELSE IF self.cv_stack_len = 0
  THEN finalize_seek_result(self,
         finalize_seek_chunk(self, seek, out_len,
           Or8(Or8(Or8(self.chunk.flags, chunk_state_maybe_start_flag(self.chunk)),
                   CHUNK_END), ROOT)))
  ELSE finalize_seek_result(self,
         finalize_seek_stack(self, IF seek < BLAKE3_OUT_LEN
                                   THEN Min(out_len, BLAKE3_OUT_LEN - seek) ELSE 0))

blake3_hasher_finalize_seek_in_place(self, seek, out_len) ==
  IF out_len = 0
  THEN finalize_seek_result(self, [out |-> << >>, log |-> << >>])
  ELSE IF self.cv_stack_len = 0
  THEN finalize_seek_result(self,
         finalize_seek_chunk(self, seek, out_len,
           Or8(Or8(Or8(self.chunk.flags, chunk_state_maybe_start_flag(self.chunk)),
                   CHUNK_END), ROOT)))
  ELSE finalize_seek_result(
         [self EXCEPT !.cv_stack_len = 0, !.cv_stack = << >>, !.cv_tree = << >>],
         finalize_seek_stack(self, out_len))

\* self is const: returned as it is
blake3_hasher_finalize_seek(self, seek, out_len) ==
  IF out_len = 0
  THEN finalize_seek_result(self, [out |-> << >>, log |-> << >>])
  ELSE IF self.cv_stack_len = 0
  THEN finalize_seek_result(self,
         finalize_seek_chunk(self, seek, out_len,
           Or8(Or8(Or8(self.chunk.flags, chunk_state_maybe_start_flag(self.chunk)),
                   CHUNK_END), ROOT)))
  ELSE finalize_seek_result(self, finalize_seek_stack(self, out_len))

blake3_hasher_finalize(self, out_len) ==
  blake3_hasher_finalize_seek(self, 0, out_len)

\* the hasher that blake3_hasher_init_derive_key_raw leaves, context_key being
\* the 32 bytes its context hasher gave
blake3_hasher_init_derive_key_material(context_key_words) ==
  [key |-> context_key_words,
   chunk |-> chunk_state_init(context_key_words, DERIVE_KEY_MATERIAL),
   cv_stack_len |-> 0,
   cv_stack |-> << >>,
   cv_tree |-> << >>,
   log |-> << >>]

\* blake3_hasher_init_derive_key_raw with the defect of hashing the context
\* without the DERIVE_KEY_CONTEXT flag
blake3_hasher_init_derive_key_raw_plain(context, context_len) ==
  blake3_hasher_init_derive_key_material(
    CvWords(SeqBytes(
      blake3_hasher_finalize(
        blake3_hasher_update(blake3_hasher_init, context, context_len),
        BLAKE3_KEY_LEN).out,
      BLAKE3_KEY_LEN)))

\* context: the context bytes, a sequence of at least context_len bytes
blake3_hasher_init_derive_key_raw(context, context_len) ==
  blake3_hasher_init_derive_key_material(
    CvWords(SeqBytes(
      blake3_hasher_finalize(
        blake3_hasher_update(
          [key |-> IV,
           chunk |-> chunk_state_init(IV, DERIVE_KEY_CONTEXT),
           cv_stack_len |-> 0,
           cv_stack |-> << >>,
           cv_tree |-> << >>,
           log |-> << >>],
          context, context_len),
        BLAKE3_KEY_LEN).out,
      BLAKE3_KEY_LEN)))

\* the number of bytes before the first NUL of a C string (a byte sequence
\* that contains a 0)
strlen(str) ==
  CHOOSE n \in 0..(Len(str) - 1) :
    str[n + 1] = 0 /\ \A m \in 1..n : str[m] # 0

blake3_hasher_init_derive_key(context) ==
  blake3_hasher_init_derive_key_raw(context, strlen(context))

\* blake3_hasher_reset with the defect of leaving the CV stack as it is
blake3_hasher_reset_chunk_only(self) ==
  [self EXCEPT
     !.chunk = chunk_state_init(self.key,
                 And8(self.chunk.flags, Or8(KEYED_HASH, DERIVE_KEY_MATERIAL)))]

blake3_hasher_reset(self) ==
  [self EXCEPT
     !.chunk = chunk_state_init(self.key,
                 And8(self.chunk.flags, Or8(KEYED_HASH, DERIVE_KEY_MATERIAL))),
     !.cv_stack_len = 0,
     !.cv_stack = << >>,
     !.cv_tree = << >>]

\* Simple one-shot hash for mining
blake3_hash(input, input_len) ==
  blake3_hasher_finalize(
    blake3_hasher_update(blake3_hasher_init, input, input_len), BLAKE3_OUT_LEN).out

\* ------------------------------------------------------------------------
\* Mining adapter (Blake3DCR)
\* ------------------------------------------------------------------------
BLOCK_HEADER_SIZE == 180
HASH_SIZE == 32
NONCE_OFFSET == 140

\* static_cast<uint8_t>(nonce >> (8 * k)), k in 0..3
NonceByte(nonce, k) == store32_le(nonce, k)

\* Blake3DCR_calculate with the defect of storing the nonce most significant
\* byte first
Blake3DCR_calculate_big_endian(header, nonce) ==
  LET injected == [Array([i \in 0..(BLOCK_HEADER_SIZE - 1) |-> header[i]]) EXCEPT
                     ![NONCE_OFFSET] = NonceByte(nonce, 3),
                     ![NONCE_OFFSET + 1] = NonceByte(nonce, 2),
                     ![NONCE_OFFSET + 2] = NonceByte(nonce, 1),
                     ![NONCE_OFFSET + 3] = NonceByte(nonce, 0)]
  IN [header |-> header,
      work |-> injected,
      output |-> blake3_hash(Bytes(injected, 0, BLOCK_HEADER_SIZE), BLOCK_HEADER_SIZE)]

\* header: 180 bytes, a function on 0..179; nonce: a uint32_t.  header is
\* const: returned as it is; work: the local working copy when blake3_hash is
\* called; output: the 32 bytes written to output
Blake3DCR_calculate(header, nonce) ==
  LET injected == [Array([i \in 0..(BLOCK_HEADER_SIZE - 1) |-> header[i]]) EXCEPT
                     ![NONCE_OFFSET] = NonceByte(nonce, 0),
                     ![NONCE_OFFSET + 1] = NonceByte(nonce, 1),
                     ![NONCE_OFFSET + 2] = NonceByte(nonce, 2),
                     ![NONCE_OFFSET + 3] = NonceByte(nonce, 3)]
  IN [header |-> header,
      work |-> injected,
      output |-> blake3_hash(Bytes(injected, 0, BLOCK_HEADER_SIZE), BLOCK_HEADER_SIZE)]

\* header: a byte sequence of at least header_len bytes
Blake3DCR_hash(header, header_len) == blake3_hash(header, header_len)

\* for (int i = 0; i < 32; i++) { ... } from index i on
RECURSIVE checkDifficulty_from(_, _, _)
checkDifficulty_from(hash, target, i) ==
  IF i < 32
  THEN IF hash[i] < target[i] THEN TRUE
       ELSE IF hash[i] > target[i] THEN FALSE
       ELSE checkDifficulty_from(hash, target, i + 1)
  ELSE TRUE

\* Blake3DCR_checkDifficulty with the defect of rejecting a hash equal to the
\* target
Blake3DCR_checkDifficulty_strict(hash, target) ==
  hash # target /\ checkDifficulty_from(hash, target, 0)

\* hash, target: 32 bytes each, functions on 0..31
Blake3DCR_checkDifficulty(hash, target) == checkDifficulty_from(hash, target, 0)

\* ------------------------------------------------------------------------
\* Inputs of the model
\* ------------------------------------------------------------------------
\* at most this many update calls between two init/reset
MaxUpdates == 3

Modes == {"default", "keyed", "derive"}

\* lengths of the update calls
UpdateLens == {0, 1, 64, 1023, 1024}

\* the input stream: the byte at stream position p is p mod 251; the n bytes
\* from position from on
Input(from, n) == [j \in 1..n |-> (from + j - 1) % 251]

\* "whats the Elvish word for friend"
TestKey ==
  Array([j \in 0..31 |->
    <<119, 104, 97, 116, 115, 32, 116, 104, 101, 32, 69, 108, 118, 105, 115, 104,
      32, 119, 111, 114, 100, 32, 102, 111, 114, 32, 102, 114, 105, 101, 110, 100>>[j + 1]])

\* "BLAKE3 2019-12-27 16:29:52 test vectors context", NUL-terminated
TestContext ==
  <<66, 76, 65, 75, 69, 51, 32, 50, 48, 49, 57, 45, 49, 50, 45, 50, 55, 32, 49, 54,
    58, 50, 57, 58, 53, 50, 32, 116, 101, 115, 116, 32, 118, 101, 99, 116, 111, 114,
    115, 32, 99, 111, 110, 116, 101, 120, 116, 0>>

DefaultHasher == blake3_hasher_init
KeyedHasher == blake3_hasher_init_keyed(TestKey)
DeriveHasher == blake3_hasher_init_derive_key(TestContext)

\* the hasher as the init variant of the mode leaves it
InitHasher(m) ==
  CASE m = "default" -> DefaultHasher
    [] m = "keyed" -> KeyedHasher
    [] m = "derive" -> DeriveHasher

\* ------------------------------------------------------------------------
\* State
\* ------------------------------------------------------------------------
VARIABLES
  hasher,    \* the blake3_hasher
  out,       \* the bytes the last call wrote to its out argument
  mode,      \* history: the init variant that created the hasher
  absorbed,  \* history: bytes given to update since init/reset
  nupd,      \* history: update calls since init/reset
  call,      \* history: the last call, [op, len, seek]
  trace,     \* history: what the last call on the hasher did (its log)
  peer,      \* a second worker's blake3_hasher with its out, mode, absorbed, nupd
  header,    \* the caller's block header (mining adapter)
  nonce,     \* the nonce of the last calculate
  work,      \* the working copy of the last calculate
  digest,    \* the output of the last calculate
  target,    \* the target of the last checkDifficulty
  meets,     \* the result of the last checkDifficulty
  m_added,      \* Counters::m_added
  m_removed,    \* Counters::m_removed
  accepted,     \* Counters::accepted
  m_maxMiners,  \* Counters::m_maxMiners
  m_miners,     \* Counters::m_miners
  cthread,      \* per thread: where it is in add() or remove(), and its locals
  tally,        \* history of the Counters calls
  s_connectionCount,  \* TcpServer::s_connectionCount: ip -> count, tracked ips only
  s_connectionMutex,  \* TcpServer::s_connectionMutex: 0, or the thread holding it
  conn          \* per thread: its call on the connection counts and where it is

hvars == <<hasher, out, mode, absorbed, nupd, call, trace>>
mvars == <<header, nonce, work, digest, target, meets>>
svars == <<s_connectionCount, s_connectionMutex, conn>>
bvars == <<hasher, out, mode, absorbed, nupd, call, trace, peer,
           header, nonce, work, digest, target, meets>>
pvars == <<m_added, m_removed, accepted, m_maxMiners, m_miners, cthread, tally>>
vars == <<hasher, out, mode, absorbed, nupd, call, trace, peer,
          header, nonce, work, digest, target, meets, pvars, svars>>

Call(op, len, seek) == [op |-> op, len |-> len, seek |-> seek]

\* what an API call has done on the hasher it returns, in order: the log of
\* the hasher, then that of the chunk still active
Logged(self) == self.log \o self.chunk.log

\* the hasher as the C struct holds it between calls: the logs start empty at
\* every call
Unlogged(self) == [self EXCEPT !.log = << >>, !.chunk.log = << >>]

\* a worker's hasher and its history, as init for mode m leaves it
Worker(m) ==
  [hasher |-> InitHasher(m), out |-> << >>, mode |-> m, absorbed |-> 0, nupd |-> 0]

\* 180-byte headers: byte i is (7 i + seed) mod 256, except that bytes
\* 140..143 all hold fill
Header(seed, fill) ==
  Array([i \in 0..(BLOCK_HEADER_SIZE - 1) |->
    IF i >= NONCE_OFFSET /\ i < NONCE_OFFSET + 4 THEN fill ELSE (7 * i + seed) % 256])

ZeroHash == Array([i \in 0..31 |-> 0])

HasherInit ==
  /\ mode \in Modes
  /\ hasher = InitHasher(mode)
  /\ out = << >>
  /\ absorbed = 0
  /\ nupd = 0
  /\ call = Call("init", 0, 0)
  /\ trace = << >>
  /\ peer = Worker("keyed")

MiningIdle ==
  /\ header = Header(0, 0)
  /\ nonce = W32(0)
  /\ work = Header(0, 0)
  /\ digest = ZeroHash
  /\ target = ZeroHash
  /\ meets = FALSE

\* the threads that call Counters::add and Counters::remove, and how many
\* calls each makes
NumCounterThreads == 2
CounterThreads == 1..NumCounterThreads
MaxCounterCalls == 2

\* the statics of Counters, zero-initialised, with no call made
CountersIdle ==
  /\ m_added = 0
  /\ m_removed = 0
  /\ accepted = 0
  /\ m_maxMiners = 0
  /\ m_miners = 0
  /\ cthread = [t \in CounterThreads |->
                 [pc |-> "idle", current |-> 0, maxVal |-> 0, calls |-> 0]]
  /\ tally = [adds |-> 0, removes |-> 0, live |-> 0, base |-> 0, resets |-> 0,
              accepts |-> 0, max_history |-> {0}, last |-> "init"]

\* the threads that accept and close connections, how many calls each makes,
\* and the addresses they see ("" when the peer address cannot be read)
NumServerThreads == 2
ServerThreads == 1..NumServerThreads
MaxServerCalls == 3
Ips == {"", "10.0.0.1", "10.0.0.2"}

\* the limit of connections per address.  It is declared in TcpServer.h; the
\* functions use it only in count >= kMaxConnectionsPerIP, so a small value
\* stands for any positive one
kMaxConnectionsPerIP == 2

\* no address tracked, the mutex free, no call made
ServerIdle ==
  /\ s_connectionCount = << >>
  /\ s_connectionMutex = 0
  /\ conn = [t \in ServerThreads |->
              [pc |-> "idle", op |-> "none", ip |-> "", ret |-> TRUE, calls |-> 0]]

Init == HasherInit /\ MiningIdle /\ CountersIdle /\ ServerIdle

\* blake3_hasher_update(&hasher, input, n) on the next n bytes of the stream
Update(n) ==
  /\ nupd < MaxUpdates
  /\ \E r \in {blake3_hasher_update(hasher, Input(absorbed, n), n)} :
       /\ hasher' = Unlogged(r)
       /\ trace' = Logged(r)
  /\ out' = << >>
  /\ absorbed' = absorbed + n
  /\ nupd' = nupd + 1
  /\ call' = Call("update", n, 0)
  /\ UNCHANGED <<pvars, svars, mode, peer, header, nonce, work, digest, target, meets>>

\* blake3_hasher_finalize_seek(&hasher, seek, out, out_len)
Finalize(seek, out_len) ==
  /\ \E r \in {blake3_hasher_finalize_seek(hasher, seek, out_len)} :
       /\ hasher' = r.self
       /\ out' = r.out
       /\ trace' = r.log
  /\ call' = Call("finalize", out_len, seek)
  /\ UNCHANGED <<pvars, svars, mode, absorbed, nupd, peer, header, nonce, work, digest, target, meets>>

\* blake3_hasher_reset(&hasher); the call records how many stack entries the
\* hasher held
Reset ==
  /\ hasher' = blake3_hasher_reset(hasher)
  /\ out' = << >>
  /\ absorbed' = 0
  /\ nupd' = 0
  /\ call' = Call("reset", hasher.cv_stack_len, 0)
  /\ trace' = << >>
  /\ UNCHANGED <<pvars, svars, mode, peer, header, nonce, work, digest, target, meets>>

\* streaming in pieces of every kind, plain 32-byte digests
Next ==
  \/ \E n \in UpdateLens : Update(n)
  \/ Finalize(0, BLAKE3_OUT_LEN)
  \/ Reset

Spec == Init /\ [][Next]_vars

\* ------------------------------------------------------------------------
\* Extendable output: finalize_seek at several offsets and lengths
\* ------------------------------------------------------------------------
SeekUpdateLens == {1, 1024}
Seeks == {0, 33, 64}
OutLens == {0, 32, 65}

SeekNext ==
  \/ \E n \in SeekUpdateLens : Update(n)
  \/ \E seek \in Seeks, out_len \in OutLens : Finalize(seek, out_len)
  \/ Reset

SeekSpec == Init /\ [][SeekNext]_vars

\* ------------------------------------------------------------------------
\* Long inputs: updates of two chunks, so that the CV stack grows until
\* hasher_merge_cv_stack merges entries
\* ------------------------------------------------------------------------
TreeUpdateLens == {1, 1024, 2048}

TreeNext ==
  \/ \E n \in TreeUpdateLens : Update(n)
  \/ Finalize(0, BLAKE3_OUT_LEN)
  \/ Reset

TreeSpec == Init /\ [][TreeNext]_vars

\* ------------------------------------------------------------------------
\* Key derivation: the hasher is initialised for contexts of several lengths,
\* through both entry points, and then hashes key material
\* ------------------------------------------------------------------------
\* context lengths: empty, within one block, a full chunk, more than a chunk
ContextLens == {0, 47, 1024, 1025}
DeriveUpdateLens == {1, 1024}

\* a context of n bytes followed by its NUL: context byte i is 1 + i mod 250
ContextString(n) == [j \in 1..(n + 1) |-> IF j = n + 1 THEN 0 ELSE 1 + ((j - 1) % 250)]

\* blake3_hasher_init_derive_key_raw(&hasher, context, n)
InitDeriveKeyRaw(n) ==
  /\ hasher' = blake3_hasher_init_derive_key_raw(ContextString(n), n)
  /\ out' = << >>
  /\ absorbed' = 0
  /\ nupd' = 0
  /\ call' = Call("init_derive_key_raw", n, 0)
  /\ trace' = << >>
  /\ UNCHANGED <<pvars, svars, mode, peer, header, nonce, work, digest, target, meets>>

\* blake3_hasher_init_derive_key(&hasher, str), str being the context of n
\* bytes as a C string
InitDeriveKey(n) ==
  /\ hasher' = blake3_hasher_init_derive_key(ContextString(n))
  /\ out' = << >>
  /\ absorbed' = 0
  /\ nupd' = 0
  /\ call' = Call("init_derive_key", n, 0)
  /\ trace' = << >>
  /\ UNCHANGED <<pvars, svars, mode, peer, header, nonce, work, digest, target, meets>>

DeriveNext ==
  \/ \E n \in ContextLens : InitDeriveKeyRaw(n)
  \/ \E n \in ContextLens : InitDeriveKey(n)
  \/ \E n \in DeriveUpdateLens : Update(n)
  \/ Finalize(0, BLAKE3_OUT_LEN)
  \/ Reset

DeriveInit == Init /\ mode = "derive"

DeriveSpec == DeriveInit /\ [][DeriveNext]_vars

\* ------------------------------------------------------------------------
\* Two workers, each with a blake3_hasher of its own (hasher and peer.hasher),
\* keyed with the same key; their calls interleave in every order.  Each
\* worker hashes the input stream from its start.
\* ------------------------------------------------------------------------
WorkerLens == {1024}
PeerLens == {65}

\* PeerUpdate with the defect of a block buffer shared by all hashers: the
\* peer's update leaves its buffer in the other worker's hasher as well
PeerUpdate_shared_buf(n) ==
  /\ peer.nupd < MaxUpdates
  /\ \E r \in {Unlogged(blake3_hasher_update(peer.hasher, Input(peer.absorbed, n), n))} :
       /\ peer' = [peer EXCEPT !.hasher = r, !.out = << >>,
                                !.absorbed = peer.absorbed + n, !.nupd = peer.nupd + 1]
       /\ hasher' = [hasher EXCEPT !.chunk.buf = r.chunk.buf]
  /\ call' = Call("peer_update", n, 0)
  /\ UNCHANGED <<pvars, svars, out, mode, absorbed, nupd, trace,
                 header, nonce, work, digest, target, meets>>

\* blake3_hasher_update(&peer_hasher, input, n) on the next n bytes of the
\* peer's stream
PeerUpdate(n) ==
  /\ peer.nupd < MaxUpdates
  /\ peer' = [peer EXCEPT
                !.hasher = Unlogged(blake3_hasher_update(peer.hasher,
                                                         Input(peer.absorbed, n), n)),
                !.out = << >>,
                !.absorbed = peer.absorbed + n,
                !.nupd = peer.nupd + 1]
  /\ call' = Call("peer_update", n, 0)
  /\ UNCHANGED <<pvars, svars, hasher, out, mode, absorbed, nupd, trace,
                 header, nonce, work, digest, target, meets>>

\* blake3_hasher_finalize(&peer_hasher, out, BLAKE3_OUT_LEN)
PeerFinalize ==
  /\ \E r \in {blake3_hasher_finalize(peer.hasher, BLAKE3_OUT_LEN)} :
       peer' = [peer EXCEPT !.hasher = r.self, !.out = r.out]
  /\ call' = Call("peer_finalize", BLAKE3_OUT_LEN, 0)
  /\ UNCHANGED <<pvars, svars, hasher, out, mode, absorbed, nupd, trace,
                 header, nonce, work, digest, target, meets>>

\* blake3_hasher_reset(&peer_hasher)
PeerReset ==
  /\ peer' = [peer EXCEPT !.hasher = blake3_hasher_reset(peer.hasher), !.out = << >>,
                           !.absorbed = 0, !.nupd = 0]
  /\ call' = Call("peer_reset", peer.hasher.cv_stack_len, 0)
  /\ UNCHANGED <<pvars, svars, hasher, out, mode, absorbed, nupd, trace,
                 header, nonce, work, digest, target, meets>>

\* ------------------------------------------------------------------------
\* The mining adapter: headers arrive, nonces are tried, digests are compared
\* with targets
\* ------------------------------------------------------------------------
HeaderSeeds == {0, 1}
HeaderFills == {0, 255}

\* 0x01020304, 0xfffefdfc
Nonces == {<<258, 772>>, <<65534, 65020>>}

\* hash with d added (mod 256) to byte k
Bump(hash, k, d) == [hash EXCEPT ![k] = (hash[k] + d) % 256]

\* targets around a hash: equal to it, or differing from it in the first or
\* the last byte, or in the first and the last byte in opposite directions
TargetsFor(hash) ==
  {hash, Bump(hash, 0, 1), Bump(hash, 31, 1), Bump(hash, 31, 255),
   Bump(Bump(hash, 0, 1), 31, 255), Bump(Bump(hash, 0, 255), 31, 1)}

\* the caller fills its header buffer
NewHeader(seed, fill) ==
  /\ header' = Header(seed, fill)
  /\ call' = Call("newHeader", BLOCK_HEADER_SIZE, 0)
  /\ UNCHANGED <<pvars, svars, hasher, out, mode, absorbed, nupd, trace, peer,
                 nonce, work, digest, target, meets>>

\* Blake3DCR::calculate(header, n, digest)
Calculate(n) ==
  /\ \E r \in {Blake3DCR_calculate(header, n)} :
       /\ header' = r.header
       /\ work' = r.work
       /\ digest' = SeqBytes(r.output, HASH_SIZE)
  /\ nonce' = n
  /\ call' = Call("calculate", BLOCK_HEADER_SIZE, 0)
  /\ UNCHANGED <<pvars, svars, hasher, out, mode, absorbed, nupd, trace, peer, target, meets>>

\* meets = Blake3DCR::checkDifficulty(digest, tgt)
CheckDifficulty(tgt) ==
  /\ target' = tgt
  /\ meets' = Blake3DCR_checkDifficulty(digest, tgt)
  /\ call' = Call("checkDifficulty", HASH_SIZE, 0)
  /\ UNCHANGED <<pvars, svars, hasher, out, mode, absorbed, nupd, trace, peer,
                 header, nonce, work, digest>>

MiningNext ==
  \/ \E seed \in HeaderSeeds, fill \in HeaderFills : NewHeader(seed, fill)
  \/ \E n \in Nonces : Calculate(n)
  \/ \E tgt \in TargetsFor(digest) : CheckDifficulty(tgt)

\* the adapter hashes in default mode only
MiningInit == Init /\ mode = "default"

MiningSpec == MiningInit /\ [][MiningNext]_vars

\* ------------------------------------------------------------------------
\* The two workers at work: calls on either hasher and nonce trials (each
\* with the hasher local to blake3_hash) in every order
\* ------------------------------------------------------------------------
WorkersNext ==
  \/ \E n \in WorkerLens : Update(n)
  \/ Finalize(0, BLAKE3_OUT_LEN)
  \/ Reset
  \/ \E n \in PeerLens : PeerUpdate(n)
  \/ PeerFinalize
  \/ PeerReset
  \/ \E n \in Nonces : Calculate(n)

WorkersInit == Init /\ mode = "keyed"

WorkersSpec == WorkersInit /\ [][WorkersNext]_vars

\* ------------------------------------------------------------------------
\* Counters (proxy): static atomics, changed by add() and remove() from any
\* thread.  Each atomic operation is one step; a thread's locals (current,
\* maxVal) and its place in the call are in cthread.  The operations are
\* memory_order_relaxed: a read-modify-write acts on the latest value, a
\* load may give any value the atomic has held.
\*
\* tally is history: adds and removes are the calls returned since the last
\* reset, base is m_miners as that reset (or the start) left it, live is adds
\* returned less removes begun since the start, max_history the values
\* m_maxMiners has held, last the call made last.
\* ------------------------------------------------------------------------
MaxResets == 1
MaxAccepted == 1

\* m_maxMiners.load(std::memory_order_relaxed), and the value a failed
\* compare_exchange_weak leaves in maxVal: a value m_maxMiners has held
LoadMaxMiners == tally.max_history

\* Counters::reset(): three stores
Counters_reset ==
  /\ m_added' = 0
  /\ m_removed' = 0
  /\ accepted' = 0
  /\ UNCHANGED <<m_maxMiners, m_miners>>

\* reset() called while no add() or remove() is running
CountersReset ==
  /\ \A t \in CounterThreads : cthread[t].pc = "idle"
  /\ tally.resets < MaxResets
  /\ Counters_reset
  /\ tally' = [tally EXCEPT !.adds = 0, !.removes = 0, !.base = m_miners,
                            !.resets = tally.resets + 1, !.last = "reset"]
  /\ UNCHANGED <<cthread, hasher, out, mode, absorbed, nupd, call, trace, peer, mvars, svars>>

\* accepted.fetch_add(1, std::memory_order_relaxed) by a user of the class
CountersAccept ==
  /\ tally.accepts < MaxAccepted
  /\ accepted' = accepted + 1
  /\ tally' = [tally EXCEPT !.accepts = tally.accepts + 1, !.last = "accept"]
  /\ UNCHANGED <<m_added, m_removed, m_maxMiners, m_miners, cthread,
                 hasher, out, mode, absorbed, nupd, call, trace, peer, mvars, svars>>

\* add(): current = m_miners.fetch_add(1) + 1
AddMiners(t) ==
  /\ cthread[t].pc = "idle"
  /\ cthread[t].calls < MaxCounterCalls
  /\ m_miners' = m_miners + 1
  /\ cthread' = [cthread EXCEPT ![t].pc = "add_added", ![t].current = m_miners + 1,
                                ![t].calls = cthread[t].calls + 1]
  /\ tally' = [tally EXCEPT !.last = "add"]
  /\ UNCHANGED <<m_added, m_removed, accepted, m_maxMiners,
                 hasher, out, mode, absorbed, nupd, call, trace, peer, mvars, svars>>

\* add(): m_added.fetch_add(1)
AddAdded(t) ==
  /\ cthread[t].pc = "add_added"
  /\ m_added' = m_added + 1
  /\ cthread' = [cthread EXCEPT ![t].pc = "add_load"]
  /\ UNCHANGED <<m_removed, accepted, m_maxMiners, m_miners, tally,
                 hasher, out, mode, absorbed, nupd, call, trace, peer, mvars, svars>>

\* add(): maxVal = m_maxMiners.load()
AddLoadMax(t) ==
  /\ cthread[t].pc = "add_load"
  /\ \E v \in LoadMaxMiners :
       cthread' = [cthread EXCEPT ![t].pc = "add_cas", ![t].maxVal = v]
  /\ UNCHANGED <<m_added, m_removed, accepted, m_maxMiners, m_miners, tally,
                 hasher, out, mode, absorbed, nupd, call, trace, peer, mvars, svars>>

\* add() returns: the loop condition is false
AddReturn(t) ==
  /\ cthread' = [cthread EXCEPT ![t].pc = "idle"]
  /\ tally' = [tally EXCEPT !.adds = tally.adds + 1, !.live = tally.live + 1,
                            !.max_history = tally.max_history \cup {m_maxMiners'}]

\* AddCasSucceeds with the defect of storing without comparing: the maximum
\* is overwritten by a smaller current
AddCasSucceeds_blind(t) ==
  /\ m_maxMiners' = cthread[t].current
  /\ AddReturn(t)

\* compare_exchange_weak(maxVal, current) finds m_maxMiners == maxVal and
\* stores current
AddCasSucceeds(t) ==
  /\ cthread[t].current > cthread[t].maxVal
  /\ m_maxMiners = cthread[t].maxVal
  /\ m_maxMiners' = cthread[t].current
  /\ AddReturn(t)

\* add(): one evaluation of
\* while (current > maxVal && !m_maxMiners.compare_exchange_weak(maxVal, current))
AddCas(t) ==
  /\ cthread[t].pc = "add_cas"
  /\ \/ /\ cthread[t].current <= cthread[t].maxVal
        /\ UNCHANGED m_maxMiners
        /\ AddReturn(t)
     \/ AddCasSucceeds(t)
     \/ /\ cthread[t].current > cthread[t].maxVal
        /\ \E v \in LoadMaxMiners :
             cthread' = [cthread EXCEPT ![t].maxVal = v]
        /\ UNCHANGED <<m_maxMiners, tally>>
  /\ UNCHANGED <<m_added, m_removed, accepted, m_miners,
                 hasher, out, mode, absorbed, nupd, call, trace, peer, mvars, svars>>

\* remove(): m_miners.fetch_sub(1); called for a miner whose add() returned
RemoveMiners(t) ==
  /\ cthread[t].pc = "idle"
  /\ cthread[t].calls < MaxCounterCalls
  /\ tally.live > 0
  /\ m_miners' = m_miners - 1
  /\ cthread' = [cthread EXCEPT ![t].pc = "remove_removed",
                                ![t].calls = cthread[t].calls + 1]
  /\ tally' = [tally EXCEPT !.live = tally.live - 1, !.last = "remove"]
  /\ UNCHANGED <<m_added, m_removed, accepted, m_maxMiners,
                 hasher, out, mode, absorbed, nupd, call, trace, peer, mvars, svars>>

\* remove(): m_removed.fetch_add(1)
RemoveRemoved(t) ==
  /\ cthread[t].pc = "remove_removed"
  /\ m_removed' = m_removed + 1
  /\ cthread' = [cthread EXCEPT ![t].pc = "idle"]
  /\ tally' = [tally EXCEPT !.removes = tally.removes + 1]
  /\ UNCHANGED <<m_added, accepted, m_maxMiners, m_miners,
                 hasher, out, mode, absorbed, nupd, call, trace, peer, mvars, svars>>

CountersNext ==
  \/ \E t \in CounterThreads : AddMiners(t)
  \/ \E t \in CounterThreads : AddAdded(t)
  \/ \E t \in CounterThreads : AddLoadMax(t)
  \/ \E t \in CounterThreads : AddCas(t)
  \/ \E t \in CounterThreads : RemoveMiners(t)
  \/ \E t \in CounterThreads : RemoveRemoved(t)
  \/ CountersReset
  \/ CountersAccept

CountersInit == Init /\ mode = "default"

CountersSpec == CountersInit /\ [][CountersNext]_vars

\* ------------------------------------------------------------------------
\* TcpServer: the per-address connection counts.  s_connectionCount is a
\* std::map: a function whose domain is the set of keys it holds.  Both
\* functions hold a std::lock_guard on s_connectionMutex from after the
\* test of ip.empty() to their return.
\* ------------------------------------------------------------------------
\* s_connectionCount[ip], which inserts the key with value 0 if it is absent
MapAt(counts, ip) == IF ip \in DOMAIN counts THEN counts ELSE (ip :> 0) @@ counts

\* s_connectionCount.erase(it)
MapErase(counts, ip) == [i \in (DOMAIN counts) \ {ip} |-> counts[i]]

\* std::lock_guard with the defect of not waiting for the mutex
lock_guard_no_wait(mutex) == TRUE

\* std::lock_guard<std::mutex> lock(s_connectionMutex) can go on
lock_guard(mutex) == mutex = 0

\* a call begins: if (ip.empty()) return true / return; else it goes on to
\* take the lock
ServerCall(t, op, ip) ==
  /\ conn[t].pc = "idle"
  /\ conn[t].calls < MaxServerCalls
  /\ conn' = [conn EXCEPT ![t] = [pc |-> IF ip = "" THEN "idle" ELSE "wait",
                                  op |-> op, ip |-> ip, ret |-> TRUE,
                                  calls |-> conn[t].calls + 1]]
  /\ UNCHANGED <<s_connectionCount, s_connectionMutex, bvars, pvars>>

\* the lock_guard is constructed
ServerLock(t) ==
  /\ conn[t].pc = "wait"
  /\ lock_guard(s_connectionMutex)
  /\ s_connectionMutex' = t
  /\ conn' = [conn EXCEPT ![t].pc = "locked"]
  /\ UNCHANGED <<s_connectionCount, bvars, pvars>>

\* checkConnectionLimit: auto &count = s_connectionCount[ip];
\* if (count >= kMaxConnectionsPerIP) return false;
CheckCount(t) ==
  /\ conn[t].pc = "locked"
  /\ conn[t].op = "checkConnectionLimit"
  /\ s_connectionCount' = MapAt(s_connectionCount, conn[t].ip)
  /\ IF MapAt(s_connectionCount, conn[t].ip)[conn[t].ip] >= kMaxConnectionsPerIP
     THEN /\ conn' = [conn EXCEPT ![t].pc = "idle", ![t].ret = FALSE]
          /\ s_connectionMutex' = 0
     ELSE /\ conn' = [conn EXCEPT ![t].pc = "counted"]
          /\ UNCHANGED s_connectionMutex
  /\ UNCHANGED <<bvars, pvars>>

\* checkConnectionLimit: ++count; return true;
CheckIncrement(t) ==
  /\ conn[t].pc = "counted"
  /\ s_connectionCount' =
       [MapAt(s_connectionCount, conn[t].ip) EXCEPT
          ![conn[t].ip] = MapAt(s_connectionCount, conn[t].ip)[conn[t].ip] + 1]
  /\ conn' = [conn EXCEPT ![t].pc = "idle", ![t].ret = TRUE]
  /\ s_connectionMutex' = 0
  /\ UNCHANGED <<bvars, pvars>>

\* if (it->second > 0) --it->second;
releaseConnection_decrement(count) == IF count > 0 THEN count - 1 ELSE count

\* releaseConnection under the lock: find, decrement, erase at zero
releaseConnection(counts, ip) ==
  IF ip \in DOMAIN counts
  THEN IF releaseConnection_decrement(counts[ip]) = 0
       THEN MapErase(counts, ip)
       ELSE [counts EXCEPT ![ip] = releaseConnection_decrement(counts[ip])]
  ELSE counts

Release(t) ==
  /\ conn[t].pc = "locked"
  /\ conn[t].op = "releaseConnection"
  /\ s_connectionCount' = releaseConnection(s_connectionCount, conn[t].ip)
  /\ conn' = [conn EXCEPT ![t].pc = "idle"]
  /\ s_connectionMutex' = 0
  /\ UNCHANGED <<bvars, pvars>>

ServerNext ==
  \/ \E t \in ServerThreads, ip \in Ips : ServerCall(t, "checkConnectionLimit", ip)
  \/ \E t \in ServerThreads, ip \in Ips : ServerCall(t, "releaseConnection", ip)
  \/ \E t \in ServerThreads : ServerLock(t)
  \/ \E t \in ServerThreads : CheckCount(t)
  \/ \E t \in ServerThreads : CheckIncrement(t)
  \/ \E t \in ServerThreads : Release(t)

ServerInit == Init /\ mode = "default"

ServerSpec == ServerInit /\ [][ServerNext]_vars

\* ------------------------------------------------------------------------
\* Properties
\* ------------------------------------------------------------------------
\* the 32-byte digest a finalize call would give now
Digest(self) == blake3_hasher_finalize(self, BLAKE3_OUT_LEN).out

\* the hasher of mode m after a single update with the first n stream bytes
OneUpdate(m, n) == blake3_hasher_update(InitHasher(m), Input(0, n), n)

\* digest agrees with the single-update digest of the same bytes and, in
\* default mode, with the one-shot hash
AgreesWithOneShot(digest_now, m, n) ==
  /\ digest_now = Digest(OneUpdate(m, n))
  /\ m = "default" => digest_now = blake3_hash(Input(0, n), n)

\* C1: in every mode, when the input was given in two or more update calls
\* (split inside a block, on a block boundary or on a chunk boundary), finalize
\* gives the same digest as after one update with the whole input, and in
\* default mode the same as the one-shot blake3_hash.
C1_SplitEqualsOneShot ==
  (call.op = "update" /\ nupd >= 2) => AgreesWithOneShot(Digest(hasher), mode, absorbed)

\* C1 witness: two updates of 1024 bytes each, the split on a chunk boundary
C1_Witness ==
  /\ call.op = "update"
  /\ nupd = 2
  /\ call.len = BLAKE3_CHUNK_LEN
  /\ absorbed = 2 * BLAKE3_CHUNK_LEN
  /\ hasher.cv_stack_len = 1

\* the published BLAKE3 digests of the inputs of 0, 1, 1023, 1024 and 1025
\* bytes (byte i of the input is i mod 251)
PublishedLens == {0, 1, 1023, 1024, 1025}

Published(n) ==
  CASE n = 0 ->
         <<175, 19, 73, 185, 245, 249, 161, 166, 160, 64, 77, 234, 54, 220, 201, 73,
           155, 203, 37, 201, 173, 193, 18, 183, 204, 154, 147, 202, 228, 31, 50, 98>>
    [] n = 1 ->
         <<45, 58, 222, 223, 241, 27, 97, 241, 76, 136, 110, 53, 175, 160, 54, 115,
           109, 205, 135, 167, 77, 39, 181, 193, 81, 2, 37, 208, 245, 146, 226, 19>>
    [] n = 1023 ->
         <<16, 16, 137, 112, 238, 218, 62, 185, 50, 186, 172, 20, 40, 199, 162, 22,
           59, 14, 146, 76, 154, 158, 37, 179, 91, 186, 114, 178, 143, 112, 189, 17>>
    [] n = 1024 ->
         <<66, 33, 71, 57, 240, 149, 164, 6, 243, 252, 131, 222, 184, 137, 116, 74,
           192, 13, 248, 49, 193, 13, 170, 85, 24, 155, 93, 18, 28, 133, 90, 247>>
    [] n = 1025 ->
         <<208, 2, 120, 174, 71, 235, 39, 179, 79, 174, 207, 103, 180, 254, 38, 63,
           130, 213, 65, 41, 22, 193, 255, 217, 124, 140, 183, 251, 129, 75, 132, 68>>

\* the number of chunks of an input of n bytes
NumChunks(n) == IF n = 0 THEN 1 ELSE (n + BLAKE3_CHUNK_LEN - 1) \div BLAKE3_CHUNK_LEN

\* chunk number index of the first n stream bytes, absorbed on its own
CanonicalChunk(n, index) ==
  chunk_state_update(
    [chunk_state_init(IV, 0) EXCEPT !.chunk_counter = index],
    Input(index * BLAKE3_CHUNK_LEN, Min(BLAKE3_CHUNK_LEN, n - index * BLAKE3_CHUNK_LEN)),
    0, Min(BLAKE3_CHUNK_LEN, n - index * BLAKE3_CHUNK_LEN))

\* the largest power of two strictly smaller than k (k >= 2), from p on
RECURSIVE LeftChunks(_, _)
LeftChunks(k, p) == IF 2 * p < k THEN LeftChunks(k, 2 * p) ELSE p

\* the 64-byte block of a parent node
ParentBlock(left, right) ==
  Array([i \in 0..63 |-> IF i < BLAKE3_OUT_LEN THEN left[i] ELSE right[i - BLAKE3_OUT_LEN]])

\* the chaining value of the canonical subtree over the k chunks from chunk lo
\* on: its left subtree covers LeftChunks(k, 1) chunks
RECURSIVE CanonicalCv(_, _, _)
CanonicalCv(n, lo, k) ==
  IF k = 1
  THEN chunk_state_output(CanonicalChunk(n, lo))
  ELSE CvBytes(compress_in_place(IV,
         ParentBlock(CanonicalCv(n, lo, LeftChunks(k, 1)),
                     CanonicalCv(n, lo + LeftChunks(k, 1), k - LeftChunks(k, 1))),
         BLAKE3_BLOCK_LEN, 0, PARENT))

\* the root output of a single chunk
CanonicalRootChunk(chunk) ==
  compress_xof(chunk.cv, chunk.buf, chunk.buf_len, 0,
               Or8(Or8(chunk_state_maybe_start_flag(chunk), CHUNK_END), ROOT))

\* the default-mode digest of the first n stream bytes over the canonical tree
CanonicalDigest(n) ==
  IF NumChunks(n) = 1
  THEN Bytes(CanonicalRootChunk(CanonicalChunk(n, 0)), 0, BLAKE3_OUT_LEN)
  ELSE Bytes(CvBytes(compress_in_place(IV,
         ParentBlock(CanonicalCv(n, 0, LeftChunks(NumChunks(n), 1)),
                     CanonicalCv(n, LeftChunks(NumChunks(n), 1),
                                 NumChunks(n) - LeftChunks(NumChunks(n), 1))),
         BLAKE3_BLOCK_LEN, 0, Or8(PARENT, ROOT))), 0, BLAKE3_OUT_LEN)

\* C2: in default mode the digest of the absorbed input is the published one
\* for the lengths 0, 1, 1023, 1024 and 1025, and for every length it is the
\* root over the canonical tree (3 chunks: parent(parent(c0, c1), c2)).
C2_PublishedDigests ==
  (mode = "default" /\ call.op \in {"init", "update"}) =>
    /\ absorbed \in PublishedLens => Digest(hasher) = Published(absorbed)
    /\ Digest(hasher) = CanonicalDigest(absorbed)

\* the number of chunks under a subtree written in prefix form
Leaves(tree) == Cardinality({j \in 1..Len(tree) : tree[j] >= 0})

\* C3: when update has returned and N >= 1 chaining values have been pushed
\* since init/reset, cv_stack_len = popcount(N).  (Every push advances
\* chunk_counter by one, from 0.)
C3_StackLenIsPopcount ==
  (call.op = "update" /\ hasher.chunk.chunk_counter >= 1) =>
    hasher.cv_stack_len = popcount(hasher.chunk.chunk_counter)

\* C4: between calls no two entries of the CV stack are roots of subtrees that
\* cover the same number of chunks.
C4_NoEqualSubtrees ==
  \A j1, j2 \in 1..hasher.cv_stack_len :
    j1 # j2 => Leaves(hasher.cv_tree[j1]) # Leaves(hasher.cv_tree[j2])

\* the wide (64-byte) root output block number blk of a single-chunk hasher
WideBlock(self, blk) ==
  compress_xof(self.chunk.cv, self.chunk.buf, self.chunk.buf_len, blk,
    Or8(Or8(Or8(self.chunk.flags, chunk_state_maybe_start_flag(self.chunk)), CHUNK_END), ROOT))

\* written holds the stream bytes from position seek on: those that lie in
\* output block blk are the bytes of wide at their position mod 64
AgreesWithBlock(written, seek, wide, blk) ==
  \A pos \in seek..(seek + Len(written) - 1) :
    pos \div 64 = blk => written[pos - seek + 1] = wide[pos % 64]

\* C5: with an empty CV stack, finalize_seek(k, buf, len) with len >= 1 writes
\* bytes [k, k + len) of what finalize_seek(0, buf, k + len) writes, and the
\* byte at stream position p is byte p mod 64 of the wide compression with
\* counter p div 64.
C5_SeekConsistent ==
  (call.op = "finalize" /\ hasher.cv_stack_len = 0 /\ call.len >= 1) =>
    /\ Len(out) = call.len
    /\ out = SubSeq(blake3_hasher_finalize_seek(hasher, 0, call.seek + call.len).out,
                    call.seek + 1, call.seek + call.len)
    /\ \A blk \in (call.seek \div 64)..((call.seek + call.len - 1) \div 64) :
         AgreesWithBlock(out, call.seek, WideBlock(hasher, blk), blk)

\* C5 witness: 65 bytes from offset 33 of a full single chunk: the output
\* starts inside block 0 and ends inside block 1
C5_Witness ==
  /\ call.op = "finalize"
  /\ call.seek = 33
  /\ call.len = 65
  /\ hasher.cv_stack_len = 0
  /\ absorbed = BLAKE3_CHUNK_LEN

\* C6: finalize and finalize_seek leave every field of the hasher unchanged;
\* so the call repeated on the hasher writes the same bytes, and the bytes are
\* those of a hasher that took the same input with no finalize in between.
C6_FinalizeReadOnly ==
  /\ [][call'.op = "finalize" => hasher' = hasher]_vars
  /\ [](call.op = "finalize" =>
          /\ out = blake3_hasher_finalize_seek(hasher, call.seek, call.len).out
          /\ out = blake3_hasher_finalize_seek(OneUpdate(mode, absorbed),
                                               call.seek, call.len).out)

\* C6 witness: a finalize_seek on a hasher that holds a CV stack entry and a
\* partly filled chunk, after two updates
C6_Witness ==
  /\ call.op = "finalize"
  /\ call.seek = 33
  /\ call.len = BLAKE3_OUT_LEN
  /\ nupd = 2
  /\ hasher.cv_stack_len = 1
  /\ hasher.chunk.buf_len = 1

\* C7: after reset the hasher is in the state its init variant left it in:
\* same key, the mode flag alone, chunk cv = key, chunk_counter = 0, buf all
\* zero, buf_len = 0, blocks_compressed = 0, cv_stack_len = 0; so an update
\* after reset gives what the same update gives after init.
C7_ResetIsInit ==
  /\ call.op = "reset" =>
       /\ hasher = InitHasher(mode)
       /\ hasher.key = InitHasher(mode).key
       /\ hasher.chunk.flags = (CASE mode = "default" -> 0
                                  [] mode = "keyed" -> KEYED_HASH
                                  [] mode = "derive" -> DERIVE_KEY_MATERIAL)
       /\ hasher.chunk.cv = hasher.key
       /\ hasher.chunk.chunk_counter = 0
       /\ hasher.chunk.buf = ZeroBlock
       /\ hasher.chunk.buf_len = 0
       /\ hasher.chunk.blocks_compressed = 0
       /\ hasher.cv_stack_len = 0
  /\ (call.op = "update" /\ nupd = 1) => Digest(hasher) = Digest(OneUpdate(mode, absorbed))

\* C7 witness: a reset of a keyed hasher that held a CV stack entry
C7_Witness ==
  /\ call.op = "reset"
  /\ call.len >= 1
  /\ mode = "keyed"

\* hash <= target, both read as big-endian 256-bit unsigned integers: they are
\* equal, or hash is smaller at the first byte where they differ
BigEndianLeq(hash, tgt) ==
  \/ \A k \in 0..31 : hash[k] = tgt[k]
  \/ \E k \in 0..31 : hash[k] < tgt[k] /\ \A j \in 0..(k - 1) : hash[j] = tgt[j]

\* C8: checkDifficulty(hash, target) is true exactly when hash <= target as
\* big-endian 256-bit integers.
C8_CheckDifficulty ==
  call.op = "checkDifficulty" => (meets <=> BigEndianLeq(digest, target))

\* C8 witness: a computed digest that is greater than the target in byte 31
\* only, and is rejected
C8_Witness ==
  /\ call.op = "checkDifficulty"
  /\ digest # ZeroHash
  /\ \A k \in 0..30 : digest[k] = target[k]
  /\ digest[31] > target[31]
  /\ ~meets

\* header with its bytes 140..143 cleared
WithoutNonce(hdr) ==
  [i \in 0..(BLOCK_HEADER_SIZE - 1) |->
    IF i >= NONCE_OFFSET /\ i < NONCE_OFFSET + 4 THEN 0 ELSE hdr[i]]

\* C9: calculate hashes a 180-byte working copy whose bytes 140..143 are the
\* nonce, least significant byte first (0x01020304: 04 03 02 01), and whose
\* other bytes are the header's; the header is left as it was; the output is
\* the one-shot hash of the working copy, whatever the header held at 140..143.
C9_NonceInjection ==
  /\ [][call'.op = "calculate" => header' = header]_vars
  /\ [](call.op = "calculate" =>
          /\ DOMAIN work = 0..(BLOCK_HEADER_SIZE - 1)
          /\ \A i \in 0..(BLOCK_HEADER_SIZE - 1) :
               (i < NONCE_OFFSET \/ i >= NONCE_OFFSET + 4) => work[i] = header[i]
          /\ work[140] = nonce[2] % 256
          /\ work[141] = nonce[2] \div 256
          /\ work[142] = nonce[1] % 256
          /\ work[143] = nonce[1] \div 256
          /\ nonce = <<258, 772>> =>
               <<work[140], work[141], work[142], work[143]>> = <<4, 3, 2, 1>>
          /\ digest = SeqBytes(blake3_hash(Bytes(work, 0, BLOCK_HEADER_SIZE),
                                           BLOCK_HEADER_SIZE), HASH_SIZE)
          /\ digest = SeqBytes(Blake3DCR_calculate(WithoutNonce(header), nonce).output,
                               HASH_SIZE))

\* C9 witness: calculate with nonce 0x01020304 on a header that holds 0xff in
\* bytes 140..143
C9_Witness ==
  /\ call.op = "calculate"
  /\ nonce = <<258, 772>>
  /\ header[NONCE_OFFSET] = 255
  /\ work[NONCE_OFFSET] = 4

\* C10: finalize_seek writes exactly out_len bytes, from the single chunk or
\* from the folded CV stack; with out_len = 0 it writes nothing.
C10_WritesOutLen ==
  call.op = "finalize" => Len(out) = call.len

\* a, b and c are pairwise distinct
Distinct3(a, b, c) == a # b /\ a # c /\ b # c

\* C11: for the same input bytes, the default hasher, the hasher keyed with
\* TestKey and the derive-key hasher give three pairwise distinct 32-byte
\* digests.
C11_ModesDistinct ==
  (mode = "default" /\ call.op \in {"init", "update"}) =>
    /\ Len(Digest(hasher)) = BLAKE3_OUT_LEN
    /\ Distinct3(Digest(hasher),
                 Digest(OneUpdate("keyed", absorbed)),
                 Digest(OneUpdate("derive", absorbed)))

\* C11 witness: the default hasher after 1025 bytes in two updates
C11_Witness ==
  /\ mode = "default"
  /\ call.op = "update"
  /\ absorbed = BLAKE3_CHUNK_LEN + 1
  /\ nupd = 2
  /\ hasher.cv_stack_len = 1

\* the context key of the first n bytes of context: their 32-byte digest under
\* key = IV and flags = DERIVE_KEY_CONTEXT
ContextKey(context, n) ==
  blake3_hasher_finalize(
    blake3_hasher_update(
      [blake3_hasher_init EXCEPT !.chunk = chunk_state_init(IV, DERIVE_KEY_CONTEXT)],
      context, n),
    BLAKE3_KEY_LEN).out

\* 32 bytes (a sequence) read as 8 little-endian words, each word as the pair
\* of its halves
WordsOf(bytes) ==
  [i \in 0..7 |->
    <<bytes[4 * i + 3] + 256 * bytes[4 * i + 4], bytes[4 * i + 1] + 256 * bytes[4 * i + 2]>>]

\* the calls of a log that are compressions
Compressions(log) == {k \in 1..Len(log) : log[k].site # "hasher_push_cv"}

\* C12: init_derive_key_raw(context, len) leaves key = the digest of the
\* context under key IV and flag DERIVE_KEY_CONTEXT, read as 8 little-endian
\* words, chunk cv = key, chunk flags = DERIVE_KEY_MATERIAL and an empty CV
\* stack, for single-chunk and multi-chunk contexts; init_derive_key(str) gives
\* the state of init_derive_key_raw(str, strlen(str)); no compression of the
\* material phase carries DERIVE_KEY_CONTEXT.
C12_DeriveKeyInit ==
  /\ call.op \in {"init_derive_key_raw", "init_derive_key"} =>
       /\ hasher.key = WordsOf(ContextKey(ContextString(call.len), call.len))
       /\ hasher.chunk.cv = hasher.key
       /\ hasher.chunk.flags = DERIVE_KEY_MATERIAL
       /\ hasher.cv_stack_len = 0
       /\ hasher.cv_stack = << >>
  /\ call.op = "init_derive_key" =>
       /\ strlen(ContextString(call.len)) = call.len
       /\ hasher = blake3_hasher_init_derive_key_raw(ContextString(call.len),
                                                      strlen(ContextString(call.len)))
  /\ call.op \in {"update", "finalize"} =>
       \A k \in Compressions(trace) :
         /\ And8(trace[k].flags, DERIVE_KEY_CONTEXT) = 0
         /\ And8(trace[k].flags, DERIVE_KEY_MATERIAL) = DERIVE_KEY_MATERIAL

\* C12 witness: init_derive_key_raw with a context of 1025 bytes, which the
\* context hasher finalizes from its CV stack
C12_Witness ==
  /\ call.op = "init_derive_key_raw"
  /\ call.len = BLAKE3_CHUNK_LEN + 1
  /\ hasher.chunk.flags = DERIVE_KEY_MATERIAL

\* C13: between calls, after any sequence of init, update, finalize and
\* reset, buf_len <= 64, blocks_compressed <= 15 and chunk_state_len =
\* 64 * blocks_compressed + buf_len <= 1024.
C13_ChunkBounds ==
  /\ hasher.chunk.buf_len \in 0..BLAKE3_BLOCK_LEN
  /\ hasher.chunk.blocks_compressed \in 0..15
  /\ chunk_state_len(hasher.chunk)
       = 64 * hasher.chunk.blocks_compressed + hasher.chunk.buf_len
  /\ chunk_state_len(hasher.chunk) <= BLAKE3_CHUNK_LEN

\* C13 witness: a full chunk, reached by an update of 1023 bytes on a chunk
\* that held one byte: 15 blocks compressed and 64 bytes buffered
C13_Witness ==
  /\ call.op = "update"
  /\ call.len = 1023
  /\ hasher.chunk.blocks_compressed = 15
  /\ hasher.chunk.buf_len = BLAKE3_BLOCK_LEN

\* the hasher of mode m that was given the first n stream bytes in updates of
\* len bytes each (n a multiple of len), with no other hasher in existence
RECURSIVE RanAlone(_, _, _)
RanAlone(m, n, len) ==
  IF n = 0
  THEN InitHasher(m)
  ELSE Unlogged(blake3_hasher_update(RanAlone(m, n - len, len), Input(n - len, len), len))

ModeFlag(m) ==
  CASE m = "default" -> 0
    [] m = "keyed" -> KEYED_HASH
    [] m = "derive" -> DERIVE_KEY_MATERIAL

\* C15: finalize of a hasher that has absorbed no bytes (no update, or updates
\* of length 0 only) finds one chunk with buf_len = 0, blocks_compressed = 0
\* and an empty CV stack, and makes one compression: of the all-zero block,
\* with block_len = 0 and flags = mode flag | CHUNK_START | CHUNK_END | ROOT.
C15_EmptyInput ==
  (call.op = "finalize" /\ absorbed = 0) =>
    /\ hasher.chunk.buf_len = 0
    /\ hasher.chunk.blocks_compressed = 0
    /\ hasher.chunk.chunk_counter = 0
    /\ hasher.cv_stack_len = 0
    /\ Len(trace) = 1
    /\ trace[1].block = ZeroBlock
    /\ trace[1].block_len = 0
    /\ trace[1].cv = hasher.key
    /\ trace[1].flags = ModeFlag(mode) + CHUNK_START + CHUNK_END + ROOT

\* C15 witness: a keyed hasher finalized after two updates of length 0
C15_Witness ==
  /\ call.op = "finalize"
  /\ absorbed = 0
  /\ nupd = 2
  /\ mode = "keyed"
  /\ Len(out) = BLAKE3_OUT_LEN

\* the stores of hasher_push_cv in a log
Pushes(log) == {k \in 1..Len(log) : log[k].site = "hasher_push_cv"}

\* C16: whenever hasher_push_cv(new_cv, total_chunks) stores new_cv,
\* cv_stack_len = popcount(total_chunks) at that instant, for every push,
\* the first included.
C16_PushAtPopcount ==
  \A k \in Pushes(trace) : trace[k].cv_stack_len = popcount(trace[k].chunk_counter)

\* the parent compressions in a log
Merges(log) == {k \in 1..Len(log) : log[k].site = "hasher_merge_cv_stack"}
Folds(log) == {k \in 1..Len(log) : log[k].site = "finalize_fold"}

\* entry number j of a CV stack, as 32 bytes
StackEntry(cv_stack, j) ==
  [i \in 0..(BLAKE3_OUT_LEN - 1) |-> cv_stack[j * BLAKE3_OUT_LEN + i + 1]]

\* the CV stack that results from stack when the merges and pushes of log are
\* made from event k on, each merge taking the entry below the top as left
\* child and the top entry as right child and putting the parent in the place
\* of both; <<-1>> if a merge of log took another block
RECURSIVE StackReplay(_, _, _)
StackReplay(stack, log, k) ==
  IF k > Len(log) THEN stack
  ELSE IF log[k].site = "hasher_merge_cv_stack"
  THEN IF /\ Len(stack) >= 64
          /\ log[k].block = ParentBlock(StackEntry(stack, (Len(stack) \div 32) - 2),
                                        StackEntry(stack, (Len(stack) \div 32) - 1))
       THEN StackReplay(SubSeq(stack, 1, Len(stack) - 64)
                          \o Bytes(CvBytes(compress_in_place_of(log[k])), 0, BLAKE3_OUT_LEN),
                        log, k + 1)
       ELSE <<-1>>
  ELSE IF log[k].site = "hasher_push_cv"
  THEN StackReplay(stack \o Bytes(log[k].new_cv, 0, BLAKE3_OUT_LEN), log, k + 1)
  ELSE StackReplay(stack, log, k + 1)

\* the 32 bytes that result from right when the folds of log are made from
\* event k on, each taking stack entry num_cvs - 1 as left child and the
\* result so far as right child, with ROOT on the fold of entry 0 alone;
\* <<-1>> if a fold of log took another block or other flags, or if the folds
\* are not one per stack entry
RECURSIVE FoldReplay(_, _, _, _, _)
FoldReplay(self, right, log, k, num_cvs) ==
  IF k > Len(log)
  THEN IF num_cvs = 0 THEN Bytes(right, 0, BLAKE3_OUT_LEN) ELSE <<-1>>
  ELSE IF log[k].site = "finalize_fold"
  THEN IF /\ num_cvs >= 1
          /\ log[k].block = ParentBlock(StackEntry(self.cv_stack, num_cvs - 1), right)
          /\ log[k].flags = self.chunk.flags + PARENT + (IF num_cvs = 1 THEN ROOT ELSE 0)
       THEN FoldReplay(self, CvBytes(compress_in_place_of(log[k])), log, k + 1, num_cvs - 1)
       ELSE <<-1>>
  ELSE FoldReplay(self, right, log, k + 1, num_cvs)

\* C17: every parent compression (the merges of hasher_push_cv and the folds
\* of the multi-chunk finalize) has the hasher's key as chaining value, a
\* 64-byte block of the left child's CV followed by the right child's,
\* block_len = 64, counter = 0 and flags = mode flag | PARENT, with ROOT added
\* on the last fold only and never CHUNK_START or CHUNK_END; a merge takes the
\* entry below the top as left child and the top entry as right child, and the
\* parent takes the place of both.
C17_ParentCompressions ==
  /\ [][call'.op = "update" =>
          StackReplay(hasher.cv_stack, trace', 1) = hasher'.cv_stack]_vars
  /\ [](/\ \A k \in Merges(trace) \cup Folds(trace) :
             /\ trace[k].cv = hasher.key
             /\ trace[k].block_len = BLAKE3_BLOCK_LEN
             /\ trace[k].counter = 0
             /\ And8(trace[k].flags, CHUNK_START + CHUNK_END) = 0
        /\ \A k \in Merges(trace) : trace[k].flags = ModeFlag(mode) + PARENT
        /\ \A k \in Folds(trace) :
             trace[k].flags = ModeFlag(mode) + PARENT
                                + (IF \A j \in Folds(trace) : j <= k THEN ROOT ELSE 0)
        /\ (call.op = "finalize" /\ hasher.cv_stack_len > 0) =>
             /\ Cardinality(Folds(trace)) = hasher.cv_stack_len
             /\ FoldReplay(hasher, chunk_state_output(hasher.chunk), trace, 1,
                           hasher.cv_stack_len) = out)

\* C17 witness: an update that pushes the fourth chunk: two merges, three
\* stack entries becoming one, before the push
C17_Witness ==
  /\ call.op = "update"
  /\ Cardinality(Merges(trace)) = 2
  /\ hasher.cv_stack_len = 2
  /\ hasher.chunk.chunk_counter = 4

\* the block compressions of chunks in a log
ChunkBlocks(log) ==
  {k \in 1..Len(log) :
     log[k].site \in {"chunk_state_update", "chunk_state_output", "finalize_seek_chunk"}}

\* CHUNK_START for a block compressed when blocks blocks of its chunk were
\* compressed before it
StartFlag(blocks) == IF blocks = 0 THEN CHUNK_START ELSE 0

\* follows the log of an update from event k on, for a hasher whose active
\* chunk has number idx and blocks blocks compressed: each block compressed
\* in update must have counter idx, block_len 64, CHUNK_START exactly when it
\* is the first of its chunk and no CHUNK_END; each chunk output must have
\* counter idx, CHUNK_START likewise and CHUNK_END; a push ends the chunk.
\* Gives the number of the active chunk and its blocks at the end, <<-1>> if
\* an event differs
RECURSIVE ChunkReplay(_, _, _, _, _)
ChunkReplay(log, k, idx, blocks, mode_flag) ==
  IF k > Len(log) THEN <<idx, blocks>>
  ELSE IF log[k].site = "chunk_state_update"
  THEN IF /\ log[k].counter = idx
          /\ log[k].block_len = BLAKE3_BLOCK_LEN
          /\ log[k].flags = mode_flag + StartFlag(blocks)
       THEN ChunkReplay(log, k + 1, idx, blocks + 1, mode_flag)
       ELSE <<-1>>
  ELSE IF log[k].site = "chunk_state_output"
  THEN IF /\ log[k].counter = idx
          /\ log[k].block_len <= BLAKE3_BLOCK_LEN
          /\ log[k].flags = mode_flag + StartFlag(blocks) + CHUNK_END
          /\ k < Len(log)
          /\ log[k + 1].site \in {"hasher_merge_cv_stack", "hasher_push_cv"}
       THEN ChunkReplay(log, k + 1, idx, blocks, mode_flag)
       ELSE <<-1>>
  ELSE IF log[k].site = "hasher_push_cv"
  THEN ChunkReplay(log, k + 1, idx + 1, 0, mode_flag)
  ELSE ChunkReplay(log, k + 1, idx, blocks, mode_flag)

\* C18: every block compression of chunk number i has counter = i, except
\* the root output blocks of a single-chunk hasher, which have the output
\* block counter; it carries CHUNK_START exactly when it is the chunk's first
\* block and CHUNK_END exactly when it is the chunk's last block, compressed
\* by chunk_state_output or finalize; the compressions inside update have
\* block_len = 64 and no CHUNK_END; a chunk of at most 64 bytes has no block
\* compressed by update, and its one block carries both flags.
C18_ChunkBlockFlags ==
  /\ [][call'.op = "update" =>
          ChunkReplay(trace', 1, hasher.chunk.chunk_counter,
                      hasher.chunk.blocks_compressed, ModeFlag(mode))
            = <<hasher'.chunk.chunk_counter, hasher'.chunk.blocks_compressed>>]_vars
  /\ [](/\ chunk_state_len(hasher.chunk) <= BLAKE3_BLOCK_LEN =>
             hasher.chunk.blocks_compressed = 0
        /\ (call.op = "finalize" /\ hasher.cv_stack_len = 0) =>
             /\ ChunkBlocks(trace) = 1..Len(trace)
             /\ Len(trace) = (IF call.len = 0 THEN 0
                              ELSE ((call.seek % 64) + call.len + 63) \div 64)
             /\ \A k \in 1..Len(trace) :
                  /\ trace[k].site = "finalize_seek_chunk"
                  /\ trace[k].counter = (call.seek \div 64) + (k - 1)
                  /\ trace[k].block_len = hasher.chunk.buf_len
                  /\ trace[k].flags = ModeFlag(mode)
                                        + StartFlag(hasher.chunk.blocks_compressed)
                                        + CHUNK_END + ROOT
        /\ (call.op = "finalize" /\ hasher.cv_stack_len > 0 /\ call.len > 0) =>
             /\ ChunkBlocks(trace) = {1}
             /\ trace[1].site = "chunk_state_output"
             /\ trace[1].counter = hasher.chunk.chunk_counter
             /\ trace[1].block_len = hasher.chunk.buf_len
             /\ trace[1].flags = ModeFlag(mode)
                                   + StartFlag(hasher.chunk.blocks_compressed)
                                   + CHUNK_END)

\* C18 witness: an update of 1024 bytes on a chunk holding one byte: the
\* first chunk is completed with 15 blocks compressed in update, the first
\* with CHUNK_START, its last block is compressed by chunk_state_output, and
\* chunk 1 holds one byte
C18_Witness ==
  /\ call.op = "update"
  /\ call.len = 1024
  /\ absorbed = 1025
  /\ Cardinality({k \in ChunkBlocks(trace) : trace[k].site = "chunk_state_update"}) = 15
  /\ \E k \in ChunkBlocks(trace) : trace[k].site = "chunk_state_output"
  /\ trace[1].flags = ModeFlag(mode) + CHUNK_START
  /\ hasher.chunk.chunk_counter = 1
  /\ hasher.chunk.buf_len = 1

\* the compressions in a log, and those made with ROOT
Compressed(log) == {k \in 1..Len(log) : log[k].site # "hasher_push_cv"}
Roots(log) == {k \in Compressed(log) : And8(log[k].flags, ROOT) # 0}

\* C19: ROOT is set only inside finalize_seek: no compression of an update
\* (block, chunk output or merge) carries it.  A finalize compresses exactly
\* one tree node with ROOT: with an empty CV stack the chunk's last block,
\* with CHUNK_END, compressed again at each successive output block counter;
\* with a non-empty stack only the fold of the bottom entry (num_cvs == 1),
\* the active chunk's output and the upper folds being made without ROOT.
C19_RootOnlyInFinalize ==
  /\ call.op # "finalize" => Roots(trace) = {}
  /\ (call.op = "finalize" /\ hasher.cv_stack_len = 0) =>
       /\ Roots(trace) = 1..Len(trace)
       /\ \A k \in 1..Len(trace) :
            /\ trace[k].site = "finalize_seek_chunk"
            /\ And8(trace[k].flags, CHUNK_END) # 0
            /\ trace[k].cv = hasher.chunk.cv
            /\ trace[k].block = hasher.chunk.buf
            /\ trace[k].block_len = hasher.chunk.buf_len
            /\ trace[k].counter = trace[1].counter + (k - 1)
  /\ (call.op = "finalize" /\ hasher.cv_stack_len > 0 /\ call.len > 0) =>
       /\ Len(trace) = 1 + hasher.cv_stack_len
       /\ Roots(trace) = {Len(trace)}
       /\ trace[1].site = "chunk_state_output"
       /\ \A k \in 2..Len(trace) : trace[k].site = "finalize_fold"
       /\ \A i \in 0..(BLAKE3_OUT_LEN - 1) :
            trace[Len(trace)].block[i] = StackEntry(hasher.cv_stack, 0)[i]

\* C19 witness: a finalize over a stack of two entries, asked for 65 bytes:
\* the chunk output, an upper fold and the root fold
C19_Witness ==
  /\ call.op = "finalize"
  /\ call.len = 65
  /\ hasher.cv_stack_len = 2
  /\ Len(trace) = 3
  /\ Roots(trace) = {3}

\* C20: with a non-empty CV stack the bytes written by
\* blake3_hasher_finalize_seek(seek, out, out_len) do not depend on seek: any
\* other seek with the same out_len writes the same bytes, and they are the
\* leading bytes of the chaining value of the one root compression.
C20_StackBranchIgnoresSeek ==
  (call.op = "finalize" /\ hasher.cv_stack_len > 0 /\ call.len > 0) =>
    /\ \A seek \in Seeks \cup {call.seek + 1, 1024} :
         blake3_hasher_finalize_seek(hasher, seek, call.len).out = out
    /\ out = Bytes(CvBytes(compress_in_place_of(trace[Len(trace)])), 0,
                   Min(call.len, BLAKE3_OUT_LEN))

\* C20 witness: a finalize_seek at seek = 33 over a non-empty stack
C20_Witness ==
  /\ call.op = "finalize"
  /\ call.seek = 33
  /\ call.len = 65
  /\ hasher.cv_stack_len > 0
  /\ Len(out) = BLAKE3_OUT_LEN
  /\ out = blake3_hasher_finalize_seek(hasher, 0, 65).out

\* of L bytes absorbed since init or reset: the bytes the last chunk holds,
\* the chunks before it, and of n bytes in a chunk the blocks before the last
ChunkBytes(L) == IF L = 0 THEN 0 ELSE ((L - 1) % BLAKE3_CHUNK_LEN) + 1
ChunksBefore(L) == IF L = 0 THEN 0 ELSE (L - 1) \div BLAKE3_CHUNK_LEN
BlocksBefore(n) == IF n = 0 THEN 0 ELSE (n - 1) \div BLAKE3_BLOCK_LEN

\* the blocks that update has compressed when L bytes are absorbed, if the
\* last block of every chunk is left to chunk_state_output and finalize
UpdateBlocks(L) == (15 * ChunksBefore(L)) + BlocksBefore(ChunkBytes(L))

\* C21: however the input is split into updates, a chunk holding n >= 1
\* bytes has blocks_compressed = ceil(n / 64) - 1 and buf_len = n - 64 *
\* blocks_compressed, between 1 and 64: update compresses a full buffer only
\* when a further byte of the same chunk follows, so every update compresses
\* exactly the blocks that are no chunk's last, and the last block, a full one
\* included, is compressed from buf by chunk_state_output or finalize.
C21_LastBlockBuffered ==
  /\ [](ChunkBytes(absorbed) >= 1 =>
          /\ hasher.chunk.blocks_compressed = BlocksBefore(ChunkBytes(absorbed))
          /\ hasher.chunk.buf_len
               = ChunkBytes(absorbed) - (64 * hasher.chunk.blocks_compressed)
          /\ hasher.chunk.buf_len \in 1..BLAKE3_BLOCK_LEN)
  /\ [](call.op = "finalize" /\ call.len > 0 =>
          /\ \A k \in 1..Len(trace) : trace[k].site # "chunk_state_update"
          /\ trace[1].block = hasher.chunk.buf
          /\ trace[1].block_len = hasher.chunk.buf_len)
  /\ [][call'.op = "update" =>
          Cardinality({k \in 1..Len(trace') : trace'[k].site = "chunk_state_update"})
            = UpdateBlocks(absorbed') - UpdateBlocks(absorbed)]_vars

\* C21 witness: the byte that completes a chunk arrives alone: the 16th block
\* is full and stays in buf
C21_Witness ==
  /\ call.op = "update"
  /\ call.len = 1
  /\ absorbed = BLAKE3_CHUNK_LEN
  /\ hasher.chunk.buf_len = BLAKE3_BLOCK_LEN
  /\ hasher.chunk.blocks_compressed = 15
  /\ trace = << >>

\* C22: when L bytes have been absorbed since init or reset, through any
\* sequence of updates: if L = 0 the hasher is as initialised, and an update
\* of length 0 changes nothing; otherwise chunk_counter = ceil(L / 1024) - 1,
\* the active chunk holds L - 1024 * chunk_counter bytes, between 1 and 1024,
\* and chunk_counter chunk CVs have been pushed, each update pushing those of
\* the chunks it goes beyond.  So the CV stack is empty exactly when
\* L <= 1024, and a full chunk is pushed only when a further byte arrives.
C22_ChunkCounting ==
  /\ [](absorbed = 0 => hasher = InitHasher(mode))
  /\ [](absorbed > 0 =>
          /\ hasher.chunk.chunk_counter = ChunksBefore(absorbed)
          /\ chunk_state_len(hasher.chunk)
               = absorbed - (BLAKE3_CHUNK_LEN * hasher.chunk.chunk_counter)
          /\ chunk_state_len(hasher.chunk) \in 1..BLAKE3_CHUNK_LEN)
  /\ []((hasher.cv_stack_len = 0) <=> (absorbed <= BLAKE3_CHUNK_LEN))
  /\ [][call'.op = "update" =>
          /\ Cardinality(Pushes(trace'))
               = ChunksBefore(absorbed') - ChunksBefore(absorbed)
          /\ call'.len = 0 => (hasher' = hasher /\ trace' = << >>)]_vars

\* C22 witness: 2048 bytes absorbed, the last 1024 in one update: chunk 0 was
\* pushed by this update, chunk 1 is full and not pushed
C22_Witness ==
  /\ call.op = "update"
  /\ call.len = BLAKE3_CHUNK_LEN
  /\ absorbed = 2 * BLAKE3_CHUNK_LEN
  /\ hasher.chunk.chunk_counter = 1
  /\ chunk_state_len(hasher.chunk) = BLAKE3_CHUNK_LEN
  /\ hasher.cv_stack_len = 1
  /\ Cardinality(Pushes(trace)) = 1

\* the bytes of a 64-byte block from index len on are zero
ZeroPadded(block, len) == \A i \in len..(BLAKE3_BLOCK_LEN - 1) : block[i] = 0

\* C23: in every reachable hasher state buf[i] = 0 for buf_len <= i < 64:
\* after init, after each update (also one that compressed and cleared the
\* buffer), after a chunk rollover and after reset; so every block that is
\* compressed with block_len < 64 is zero from block_len on.
C23_BufZeroPadded ==
  /\ ZeroPadded(hasher.chunk.buf, hasher.chunk.buf_len)
  /\ \A k \in Compressed(trace) : ZeroPadded(trace[k].block, trace[k].block_len)

\* C23 witness: 64 bytes after one byte: the buffer was filled, compressed
\* and cleared, and holds the one byte that was left
C23_Witness ==
  /\ call.op = "update"
  /\ call.len = 64
  /\ absorbed = 65
  /\ hasher.chunk.blocks_compressed = 1
  /\ hasher.chunk.buf_len = 1
  /\ hasher.chunk.buf[0] # 0
  /\ hasher.chunk.buf[1] = 0

\* a value of type uint32_t
IsWord(w) == w[1] \in 0..(Half - 1) /\ w[2] \in 0..(Half - 1)

\* the word at index i of 64 bytes read as 16 little-endian words
WordAt(bytes, i) ==
  load32_le(bytes[4 * i], bytes[4 * i + 1], bytes[4 * i + 2], bytes[4 * i + 3])

\* for the arguments of the call c: state is what compress_pre gives, cv
\* what compress_in_place gives and wide what compress_xof gives
XofAgrees(c, state, cv, wide) ==
  /\ \A i \in 0..15 : IsWord(state[i])
  /\ \A i \in 0..7 :
       /\ cv[i] = Xor32(state[i], state[i + 8])
       /\ WordAt(wide, i) = cv[i]
       /\ IsWord(cv[i])
  /\ \A i \in 8..15 :
       /\ WordAt(wide, i) = Xor32(state[i], c.cv[i - 8])
       /\ IsWord(WordAt(wide, i))
  /\ \A j \in 0..63 : wide[j] \in 0..255

\* C24: for the same cv, block, block_len, counter and flags, the first 32
\* bytes of the output of compress_xof, read as 8 little-endian words, are
\* the chaining value of compress_in_place, state[i] ^ state[i + 8], and
\* bytes 32..63 are state[i] ^ cv[i - 8] for i in 8..15, every word being a
\* 32-bit value; checked on the arguments of every compression the hasher
\* makes.
C24_XofExtendsInPlace ==
  \A k \in Compressed(trace) :
    XofAgrees(trace[k],
              compress_pre(trace[k].cv, trace[k].block, trace[k].block_len,
                           trace[k].counter, trace[k].flags),
              compress_in_place_of(trace[k]),
              compress_xof_of(trace[k]))

\* C24 witness: a finalize_seek for 65 bytes from offset 64 of a one-chunk
\* hasher: output blocks 1 and 2, of which the first is written whole, cv
\* half and upper half
C24_Witness ==
  /\ call.op = "finalize"
  /\ call.seek = 64
  /\ call.len = 65
  /\ absorbed = 1
  /\ Len(trace) = 2
  /\ trace[1].counter = 1
  /\ Len(out) = 65
  /\ \A j \in 0..63 : out[j + 1] = compress_xof_of(trace[1])[j]

\* the mode flags: those that blake3_hasher_init* and the context hasher of
\* blake3_hasher_init_derive_key_raw choose
ModeFlags == KEYED_HASH + DERIVE_KEY_CONTEXT + DERIVE_KEY_MATERIAL

\* C25: in every reachable state the chunk's flags are exactly the mode flag
\* chosen at init (0, KEYED_HASH or DERIVE_KEY_MATERIAL), with no
\* CHUNK_START, CHUNK_END, PARENT, ROOT or DERIVE_KEY_CONTEXT, through
\* update, chunk rollover and reset; every compression the hasher makes
\* (chunk block, merge, fold, root) carries that mode flag and no other mode
\* flag; and key is what init made it.
C25_ModeFlagKept ==
  /\ hasher.chunk.flags = ModeFlag(mode)
  /\ hasher.key = InitHasher(mode).key
  /\ \A k \in Compressed(trace) : And8(trace[k].flags, ModeFlags) = ModeFlag(mode)

\* C25 witness: a keyed hasher whose update pushed the fourth chunk, with
\* block compressions, a chunk output and two merges
C25_Witness ==
  /\ mode = "keyed"
  /\ call.op = "update"
  /\ hasher.chunk.chunk_counter = 4
  /\ Cardinality(Merges(trace)) = 2
  /\ hasher.chunk.flags = KEYED_HASH
  /\ \E k \in Merges(trace) : trace[k].flags = KEYED_HASH + PARENT

\* the chunk indices under a subtree written in prefix form, left to right
LeafSeq(tree) == SelectSeq(tree, LAMBDA x : x >= 0)

\* the chunk indices under the first n stack entries, bottom entry first
RECURSIVE StackLeaves(_, _)
StackLeaves(cv_tree, n) ==
  IF n = 0 THEN << >> ELSE StackLeaves(cv_tree, n - 1) \o LeafSeq(cv_tree[n])

\* seq is from, from + 1, ...
Consecutive(seq, from) == \A j \in 1..Len(seq) : seq[j] = from + j - 1

\* the prefix form ending at position j of tree is that of whole subtrees:
\* in a binary tree the parents are one fewer than the leaves
RECURSIVE Surplus(_, _)
Surplus(tree, j) ==
  IF j = 0 THEN 0 ELSE Surplus(tree, j - 1) + (IF tree[j] >= 0 THEN 1 ELSE -1)

\* the tree that the fold loop of finalize builds: the active chunk as
\* rightmost leaf, joined with the stack entries from the top one down
RECURSIVE FoldTree(_, _, _)
FoldTree(cv_tree, num_cvs, right) ==
  IF num_cvs = 0 THEN right
  ELSE FoldTree(cv_tree, num_cvs - 1, <<-1>> \o cv_tree[num_cvs] \o right)

\* C26: in every reachable state the CV stack entries, bottom to top, are
\* roots of subtrees over consecutive, disjoint ranges of chunk indices that
\* together are 0 .. chunk_counter - 1, and every parent in them joins a left
\* child over [a, b) with a right child over [b, c): the leaves of each entry
\* read left to right are consecutive.  The root that finalize computes then
\* covers the chunks 0 .. chunk_counter once each, in input order, the active
\* chunk being the rightmost leaf.
C26_StackCoversChunks ==
  /\ Len(hasher.cv_tree) = hasher.cv_stack_len
  /\ Len(hasher.cv_stack) = BLAKE3_OUT_LEN * hasher.cv_stack_len
  /\ \A j \in 1..hasher.cv_stack_len :
       /\ Surplus(hasher.cv_tree[j], Len(hasher.cv_tree[j])) = 1
       /\ Len(LeafSeq(hasher.cv_tree[j])) >= 1
  /\ Consecutive(StackLeaves(hasher.cv_tree, hasher.cv_stack_len), 0)
  /\ Len(StackLeaves(hasher.cv_tree, hasher.cv_stack_len)) = hasher.chunk.chunk_counter
  /\ (call.op = "finalize" /\ hasher.cv_stack_len > 0) =>
       /\ Cardinality(Folds(trace)) = hasher.cv_stack_len
       /\ Consecutive(LeafSeq(FoldTree(hasher.cv_tree, hasher.cv_stack_len,
                                       <<hasher.chunk.chunk_counter>>)), 0)
       /\ Len(LeafSeq(FoldTree(hasher.cv_tree, hasher.cv_stack_len,
                               <<hasher.chunk.chunk_counter>>)))
            = hasher.chunk.chunk_counter + 1

\* C26 witness: a finalize of six chunks: the stack holds a subtree of the
\* chunks 0..2 (two parents), chunk 3 and chunk 4, and chunk 5 is the active
\* one
C26_Witness ==
  /\ call.op = "finalize"
  /\ hasher.chunk.chunk_counter = 5
  /\ hasher.cv_stack_len = 3
  /\ hasher.cv_tree[1] = <<-1, 0, -1, 1, 2>>
  /\ hasher.cv_tree[2] = <<3>>
  /\ hasher.cv_tree[3] = <<4>>

\* cv_stack_len after the merges and pushes of log from event k on, starting
\* at len: a merge reads the entries len - 2 and len - 1 and writes entry
\* len - 2, so it needs len >= 2; a push writes entry len, so it needs
\* len <= BLAKE3_MAX_DEPTH; -1 if an index leaves 0..54
RECURSIVE LenReplay(_, _, _)
LenReplay(len, log, k) ==
  IF k > Len(log) THEN len
  ELSE IF log[k].site = "hasher_merge_cv_stack"
  THEN IF len >= 2 THEN LenReplay(len - 1, log, k + 1) ELSE -1
  ELSE IF log[k].site = "hasher_push_cv"
  THEN IF len <= BLAKE3_MAX_DEPTH /\ log[k].cv_stack_len = len
       THEN LenReplay(len + 1, log, k + 1)
       ELSE -1
  ELSE LenReplay(len, log, k + 1)

\* C27: for every input within the bound, cv_stack_len never exceeds the 55
\* entries of cv_stack (BLAKE3_MAX_DEPTH + 1): it is at most
\* popcount(chunk_counter) + 1; every push is made with total_chunks >= 1, so
\* a merge is made only at cv_stack_len >= 2; and every entry that a merge, a
\* push or a fold reads or writes has an index in 0..54.
C27_StackWithinCapacity ==
  /\ [](/\ hasher.cv_stack_len <= BLAKE3_MAX_DEPTH + 1
        /\ hasher.cv_stack_len <= popcount(hasher.chunk.chunk_counter) + 1
        /\ Len(hasher.cv_stack) = hasher.cv_stack_len * BLAKE3_OUT_LEN
        /\ \A k \in Pushes(trace) :
             /\ trace[k].chunk_counter >= 1
             /\ popcount(trace[k].chunk_counter) >= 1
             /\ trace[k].cv_stack_len \in 0..BLAKE3_MAX_DEPTH
        /\ (call.op = "finalize" /\ hasher.cv_stack_len > 0) =>
             Cardinality(Folds(trace)) = hasher.cv_stack_len)
  /\ [][call'.op = "update" =>
          LenReplay(hasher.cv_stack_len, trace', 1) = hasher'.cv_stack_len]_vars

\* C27 witness: the third update of 2048 bytes: three entries are merged to
\* one before the fourth push, and the fifth push makes them three again
C27_Witness ==
  /\ call.op = "update"
  /\ absorbed = 6144
  /\ Cardinality(Merges(trace)) = 2
  /\ Cardinality(Pushes(trace)) = 2
  /\ hasher.cv_stack_len = 3
  /\ \E k \in Pushes(trace) : trace[k].chunk_counter = 4 /\ trace[k].cv_stack_len = 1

\* no add() or remove() is running
CountersQuiet == \A t \in CounterThreads : cthread[t].pc = "idle"

\* C28: after Counters::reset(), miners(), accepted, added() and removed()
\* all read 0, whatever add() and remove() calls came before the reset.
C28_ResetZeroes ==
  tally.last = "reset" =>
    /\ m_miners = 0
    /\ accepted = 0
    /\ m_added = 0
    /\ m_removed = 0

\* the step is one of remove()
RemoveStep ==
  \E t \in CounterThreads :
    \/ cthread[t].pc = "idle" /\ cthread'[t].pc = "remove_removed"
    \/ cthread[t].pc = "remove_removed" /\ cthread'[t].pc = "idle"

\* C29: for every interleaving of add() and remove() calls of several
\* threads in which a remove is made only for an add that has returned, no
\* update is lost: when all calls have returned, miners() is its initial
\* value + #add - #remove, added() and removed() have grown by #add and
\* #remove, and maxMiners() >= miners(); maxMiners() never decreases, and
\* remove() leaves it unchanged.
C29_NoLostUpdate ==
  /\ [](CountersQuiet =>
          /\ m_miners = tally.base + tally.adds - tally.removes
          /\ m_added = tally.adds
          /\ m_removed = tally.removes
          /\ m_maxMiners >= m_miners)
  /\ [][m_maxMiners' >= m_maxMiners]_vars
  /\ [][RemoveStep => m_maxMiners' = m_maxMiners]_vars

\* C29 witness: two add() calls that overlapped: thread 2 took current = 1,
\* thread 1 took current = 2 and stored the maximum before thread 2 loaded
\* it; then one remove()
C29_Witness ==
  /\ CountersQuiet
  /\ cthread[2].current = 1
  /\ cthread[1].current = 2
  /\ cthread[2].maxVal = 2
  /\ tally.adds = 2
  /\ tally.removes = 1
  /\ m_miners = 1
  /\ m_maxMiners = 2

\* the connections counted for ip: 0 for an address that is not tracked
Count(counts, ip) == IF ip \in DOMAIN counts THEN counts[ip] ELSE 0

\* thread t returns from a call of op in this step
Returns(t, op) ==
  /\ conn'[t].op = op
  /\ conn[t].pc # "idle"
  /\ conn'[t].pc = "idle"

\* C30: under every interleaving of checkConnectionLimit(ip) and
\* releaseConnection(ip) calls of several threads, the count of a tracked
\* address never exceeds kMaxConnectionsPerIP and the empty address is never
\* tracked; at most one thread is inside the lock; a checkConnectionLimit
\* returns true exactly when the count was below the limit, and then has
\* added one to it, and otherwise leaves it unchanged; a releaseConnection
\* takes one from a positive count, never goes below zero and leaves no
\* entry with count zero; a call with the empty address returns true and
\* changes nothing; no call changes the count of another address.
C30_ConnectionLimit ==
  /\ [](/\ \A ip \in DOMAIN s_connectionCount :
             /\ ip # ""
             /\ s_connectionCount[ip] \in 0..kMaxConnectionsPerIP
             /\ s_connectionMutex = 0 => s_connectionCount[ip] >= 1
        /\ Cardinality({t \in ServerThreads : conn[t].pc \in {"locked", "counted"}}) <= 1)
  /\ [][\A t \in ServerThreads :
          /\ (Returns(t, "checkConnectionLimit") /\ conn'[t].ip # "") =>
               /\ conn'[t].ret = (Count(s_connectionCount, conn'[t].ip) < kMaxConnectionsPerIP)
               /\ Count(s_connectionCount', conn'[t].ip)
                    = Count(s_connectionCount, conn'[t].ip) + (IF conn'[t].ret THEN 1 ELSE 0)
          /\ (Returns(t, "releaseConnection") /\ conn'[t].ip # "") =>
               /\ Count(s_connectionCount', conn'[t].ip)
                    = (IF Count(s_connectionCount, conn'[t].ip) > 0
                       THEN Count(s_connectionCount, conn'[t].ip) - 1 ELSE 0)
               /\ Count(s_connectionCount', conn'[t].ip) = 0 =>
                    conn'[t].ip \notin DOMAIN s_connectionCount'
          /\ (conn'[t] # conn[t] /\ conn'[t].ip = "") =>
               /\ conn'[t].ret = TRUE
               /\ conn'[t].pc = "idle"
               /\ s_connectionCount' = s_connectionCount
          /\ conn'[t] # conn[t] =>
               \A ip \in Ips \ {conn'[t].ip} :
                 Count(s_connectionCount', ip) = Count(s_connectionCount, ip)]_vars

\* C30 witness: an address at the limit, a checkConnectionLimit for it that
\* has returned false, while the other thread waits for the lock
C30_Witness ==
  /\ Count(s_connectionCount, "10.0.0.1") = kMaxConnectionsPerIP
  /\ conn[1].op = "checkConnectionLimit"
  /\ conn[1].ip = "10.0.0.1"
  /\ conn[1].pc = "idle"
  /\ conn[1].ret = FALSE
  /\ conn[2].pc = "wait"
  /\ s_connectionMutex = 0

=============================================================================
